---- MODULE Spec2Model ----
(***************************************************************************)
(* The asynchronous multipart file-writing engine of the filesystem sink   *)
(* (arroyo-worker/src/connectors/filesystem/mod.rs) with the JSON encoder  *)
(* (json.rs): one writer actor, the sink facade that talks to it, the      *)
(* object store it uploads to, and the runtime that checkpoints, commits,  *)
(* crashes and restarts the subtask.                                       *)
(***************************************************************************)
EXTENDS Integers, Sequences, FiniteSets, Bags, TLC

(***************************************************************************)
(* Bounds of the model.                                                    *)
(***************************************************************************)
\* number of records the source produces
MaxRecords == 2
\* number of checkpoints the runtime takes
MaxCheckpoints == 2
\* number of crash/restarts of the subtask
MaxCrashes == 1
\* highest task index of a subtask started from restored state
MaxTaskIndex == 1
\* highest next_file_index a restored DataRecovery holds
MaxNextFileIndex == 3
\* number of delete_if_present calls made on a StorageProvider
MaxDeletes == 2

(***************************************************************************)
(* Configuration (FileSettings), scaled down.                              *)
(***************************************************************************)
\* file_settings.target_part_size, in bytes
TargetPartSize == 2
\* file_settings.max_parts
MaxParts == 1
\* file_settings.rollover_seconds, in timer ticks
RolloverTicks == 2
\* task_info.task_index of the modelled subtask
TaskIndex == 0
\* the capacity of the channel to the actor
ChannelCapacity == 1

\* the values the source can produce as its n-th record: one that prints as
\* one digit and one that prints as two; no two records are equal
RecordValues(n) == {n, 10 * n}

\* Option<T>
None == <<>>
Some(x) == <<x>>
IsSome(o) == o # <<>>
Unwrap(o) == o[1]

Max(a, b) == IF a >= b THEN a ELSE b

RECURSIVE Concat(_)
\* concatenation of a sequence of byte blocks
Concat(blocks) ==
    IF blocks = <<>> THEN <<>> ELSE Head(blocks) \o Concat(Tail(blocks))

(***************************************************************************)
(* Formatting.                                                             *)
(***************************************************************************)
DigitChar(d) == <<"0", "1", "2", "3", "4", "5", "6", "7", "8", "9">>[d + 1]

RECURSIVE Digits(_)
\* the decimal digits of n, as Display / serde_json print an unsigned integer
Digits(n) ==
    IF n < 10 THEN <<DigitChar(n)>>
    ELSE Append(Digits(n \div 10), DigitChar(n % 10))

RECURSIVE PadLeft(_, _)
\* {:0>width}: zeros are put in front until the text is width long; a longer
\* text is left as it is
PadLeft(text, width) ==
    IF Len(text) >= width THEN text ELSE PadLeft(<<"0">> \o text, width)

\* JsonWriter::suffix
suffix == <<"j", "s", "o", "n">>

\* the base path the sink writes under
BasePath == <<"o", "u", "t">>

\* format!("{}/{:0>5}-{:0>3}", path, max_file_index, subtask_id) followed by
\* format!("{}.{}", path, suffix) of BatchMultipartWriter::new
FileName(file_index, subtask) ==
    BasePath \o <<"/">> \o PadLeft(Digits(file_index), 5) \o <<"-">>
        \o PadLeft(Digits(subtask), 3) \o <<".">> \o suffix

\* serde_json::to_vec of an unsigned integer record
to_vec(value) == Digits(value)

\* the encoder's serialization of a sequence of records: one line per record
RECURSIVE Serialize(_)
Serialize(records) ==
    IF records = <<>> THEN <<>>
    ELSE to_vec(Head(records)) \o <<"\n">> \o Serialize(Tail(records))

(***************************************************************************)
(* PassThrough batch builder (json.rs).                                    *)
(***************************************************************************)
\* PassThrough::insert: every record is a ready batch
batch_builder_insert(value) == Some(value)

\* PassThrough::buffered_inputs: nothing is ever held back
buffered_inputs == <<>>

(***************************************************************************)
(* JsonWriter (json.rs): the state is current_buffer.                      *)
(***************************************************************************)
JsonWriter_new == [current_buffer |-> <<>>, target_part_size |-> TargetPartSize]

buffer_length(bbw) == Len(bbw.current_buffer)

\* mem::take of the buffer
evict_current_buffer(bbw) ==
    [bbw |-> [bbw EXCEPT !.current_buffer = <<>>], bytes |-> bbw.current_buffer]

add_batch_data(bbw, data) ==
    LET grown == [bbw EXCEPT !.current_buffer = @ \o to_vec(data) \o <<"\n">>]
    IN  IF buffer_length(grown) > grown.target_part_size
        THEN LET e == evict_current_buffer(grown)
             IN  [bbw |-> e.bbw, bytes |-> Some(e.bytes)]
        ELSE [bbw |-> grown, bytes |-> None]

get_trailing_bytes_for_checkpoint(bbw) ==
    IF bbw.current_buffer = <<>> THEN None ELSE Some(bbw.current_buffer)

\* JsonWriter::close
bbw_close(bbw, final_batch) ==
    LET added == IF IsSome(final_batch)
                 THEN add_batch_data(bbw, Unwrap(final_batch))
                 ELSE [bbw |-> bbw, bytes |-> None]
    IN  IF IsSome(added.bytes) THEN added
        ELSE IF added.bbw.current_buffer = <<>>
             THEN [bbw |-> added.bbw, bytes |-> None]
             ELSE LET e == evict_current_buffer(added.bbw)
                  IN  [bbw |-> e.bbw, bytes |-> Some(e.bytes)]

(***************************************************************************)
(* MultipartManager.                                                       *)
(***************************************************************************)
UploadPart(content_id) == [tag |-> "UploadPart", content_id |-> content_id]
BufferedData(data) == [tag |-> "BufferedData", data |-> data]

\* the futures a writer hands to the actor; each completes with a callback
InitializeFuture(name) ==
    [kind |-> "InitializedMultipart", name |-> name]
PartUploadFuture(name, multipart_id, part) ==
    [kind |-> "CompletedPart", name |-> name, multipart_id |-> multipart_id,
     part_index |-> part.part_index, byte_data |-> part.byte_data]
UploadsFinishedFuture(name) ==
    [kind |-> "UploadsFinished", name |-> name]

MultipartManager_new(location) ==
    [location |-> location,
     multipart_id |-> None,
     pushed_parts |-> <<>>,
     uploaded_parts |-> 0,
     pushed_size |-> 0,
     parts_to_add |-> <<>>,
     closed |-> FALSE]

get_part_upload_future(mm, part_to_upload) ==
    [mm |-> [mm EXCEPT !.pushed_parts =
                           Append(@, BufferedData(part_to_upload.byte_data))],
     futures |-> {PartUploadFuture(mm.location, Unwrap(mm.multipart_id),
                                   part_to_upload)}]

\* a write_next_part that numbers a part by the parts uploaded so far
write_next_part_by_uploaded(mm, data) ==
    IF IsSome(mm.multipart_id)
    THEN get_part_upload_future(
             mm, [part_index |-> mm.uploaded_parts, byte_data |-> data])
    ELSE LET is_first_part == mm.parts_to_add = <<>>
         IN  [mm |-> [mm EXCEPT !.parts_to_add =
                         Append(@, [byte_data |-> data,
                                    part_index |-> Len(mm.parts_to_add)])],
              futures |-> IF is_first_part
                          THEN {InitializeFuture(mm.location)} ELSE {}]

\* a write_next_part that schedules start_multipart for every part it queues
write_next_part_always_starting(mm, data) ==
    IF IsSome(mm.multipart_id)
    THEN get_part_upload_future(
             mm, [part_index |-> Len(mm.pushed_parts), byte_data |-> data])
    ELSE [mm |-> [mm EXCEPT !.parts_to_add =
                     Append(@, [byte_data |-> data,
                                part_index |-> Len(mm.parts_to_add)])],
          futures |-> {InitializeFuture(mm.location)}]

write_next_part(mm, data) ==
    IF IsSome(mm.multipart_id)
    THEN get_part_upload_future(
             mm, [part_index |-> Len(mm.pushed_parts), byte_data |-> data])
    ELSE LET is_first_part == mm.parts_to_add = <<>>
         IN  [mm |-> [mm EXCEPT !.parts_to_add =
                         Append(@, [byte_data |-> data,
                                    part_index |-> Len(mm.parts_to_add)])],
              futures |-> IF is_first_part
                          THEN {InitializeFuture(mm.location)} ELSE {}]

RECURSIVE upload_queued(_, _)
\* the map over the taken parts_to_add in handle_initialization
upload_queued(mm, parts) ==
    IF parts = <<>> THEN [mm |-> mm, futures |-> {}]
    ELSE LET first == get_part_upload_future(mm, Head(parts))
             rest == upload_queued(first.mm, Tail(parts))
         IN  [mm |-> rest.mm, futures |-> first.futures \cup rest.futures]

handle_initialization(mm, multipart_id) ==
    upload_queued([mm EXCEPT !.multipart_id = Some(multipart_id),
                             !.parts_to_add = <<>>],
                  mm.parts_to_add)

all_uploads_finished(mm) ==
    mm.closed /\ mm.uploaded_parts = Len(mm.pushed_parts)

\* whether every slot of pushed_parts holds an uploaded part
AllUploaded(mm) ==
    \A i \in 1..Len(mm.pushed_parts) : mm.pushed_parts[i].tag = "UploadPart"

\* the content ids of pushed_parts, in slot order
ContentIds(mm) ==
    [i \in 1..Len(mm.pushed_parts) |-> mm.pushed_parts[i].content_id]

\* a handle_completed_part that fills the slots in the order of arrival
handle_completed_part_in_arrival_order(mm, part_idx, upload_part) ==
    IF part_idx >= Len(mm.pushed_parts)
    THEN [mm |-> mm, file |-> None, failed |-> TRUE, panic |-> TRUE]
    ELSE LET done == [mm EXCEPT !.pushed_parts[mm.uploaded_parts + 1] =
                                    UploadPart(upload_part),
                                !.uploaded_parts = @ + 1]
         IN  IF ~all_uploads_finished(done)
             THEN [mm |-> done, file |-> None, failed |-> FALSE,
                   panic |-> FALSE]
             ELSE IF ~IsSome(done.multipart_id) \/ ~AllUploaded(done)
                  THEN [mm |-> done, file |-> None, failed |-> TRUE,
                        panic |-> FALSE]
                  ELSE [mm |-> done,
                        file |-> Some([filename |-> done.location,
                                       multi_part_upload_id |->
                                           Unwrap(done.multipart_id),
                                       completed_parts |-> ContentIds(done)]),
                        failed |-> FALSE, panic |-> FALSE]

\* a handle_completed_part that does not count the part
handle_completed_part_uncounted(mm, part_idx, upload_part) ==
    IF part_idx >= Len(mm.pushed_parts)
    THEN [mm |-> mm, file |-> None, failed |-> TRUE, panic |-> TRUE]
    ELSE LET done == [mm EXCEPT !.pushed_parts[part_idx + 1] =
                                    UploadPart(upload_part)]
         IN  IF ~all_uploads_finished(done)
             THEN [mm |-> done, file |-> None, failed |-> FALSE,
                   panic |-> FALSE]
             ELSE IF ~IsSome(done.multipart_id) \/ ~AllUploaded(done)
                  THEN [mm |-> done, file |-> None, failed |-> TRUE,
                        panic |-> FALSE]
                  ELSE [mm |-> done,
                        file |-> Some([filename |-> done.location,
                                       multi_part_upload_id |->
                                           Unwrap(done.multipart_id),
                                       completed_parts |-> ContentIds(done)]),
                        failed |-> FALSE, panic |-> FALSE]

\* result: the manager, the file to finish if any, whether the call failed,
\* and whether it failed by a panic (index out of range) or by an error
\* (bail!("unfinished part ..."), "need multipart id to complete")
handle_completed_part(mm, part_idx, upload_part) ==
    IF part_idx >= Len(mm.pushed_parts)
    THEN [mm |-> mm, file |-> None, failed |-> TRUE, panic |-> TRUE]
    ELSE LET done == [mm EXCEPT !.pushed_parts[part_idx + 1] =
                                    UploadPart(upload_part),
                                !.uploaded_parts = @ + 1]
         IN  IF ~all_uploads_finished(done)
             THEN [mm |-> done, file |-> None, failed |-> FALSE,
                   panic |-> FALSE]
             ELSE IF ~IsSome(done.multipart_id) \/ ~AllUploaded(done)
                  THEN [mm |-> done, file |-> None, failed |-> TRUE,
                        panic |-> FALSE]
                  ELSE [mm |-> done,
                        file |-> Some([filename |-> done.location,
                                       multi_part_upload_id |->
                                           Unwrap(done.multipart_id),
                                       completed_parts |-> ContentIds(done)]),
                        failed |-> FALSE, panic |-> FALSE]

\* result: the file to finish, or failed when the code panics (open file,
\* no multipart id, or a slot that is still buffered)
get_finished_file(mm) ==
    IF ~mm.closed \/ ~IsSome(mm.multipart_id) \/ ~AllUploaded(mm)
    THEN [file |-> None, failed |-> TRUE, panic |-> TRUE]
    ELSE [file |-> Some([filename |-> mm.location,
                         multi_part_upload_id |-> Unwrap(mm.multipart_id),
                         completed_parts |-> ContentIds(mm)]),
          failed |-> FALSE, panic |-> FALSE]

(***************************************************************************)
(* Checkpoint projection of a MultipartManager (FileCheckpointData).       *)
(***************************************************************************)
Empty == [tag |-> "Empty"]
MultiPartNotCreated(parts_to_add, trailing_bytes) ==
    [tag |-> "MultiPartNotCreated", parts_to_add |-> parts_to_add,
     trailing_bytes |-> trailing_bytes]
MultiPartInFlight(id, in_flight_parts, trailing_bytes) ==
    [tag |-> "MultiPartInFlight", multi_part_upload_id |-> id,
     in_flight_parts |-> in_flight_parts, trailing_bytes |-> trailing_bytes]
MultiPartWriterClosed(id, in_flight_parts) ==
    [tag |-> "MultiPartWriterClosed", multi_part_upload_id |-> id,
     in_flight_parts |-> in_flight_parts]
MultiPartWriterUploadCompleted(id, completed_parts) ==
    [tag |-> "MultiPartWriterUploadCompleted", multi_part_upload_id |-> id,
     completed_parts |-> completed_parts]

FinishedPart(part, content_id) ==
    [tag |-> "FinishedPart", part |-> part, content_id |-> content_id]
InProgressPart(part, data) ==
    [tag |-> "InProgressPart", part |-> part, data |-> data]

\* pushed_parts.iter().enumerate().map(...): one entry per slot
InFlightParts(mm) ==
    [i \in 1..Len(mm.pushed_parts) |->
        IF mm.pushed_parts[i].tag = "UploadPart"
        THEN FinishedPart(i - 1, mm.pushed_parts[i].content_id)
        ELSE InProgressPart(i - 1, mm.pushed_parts[i].data)]

\* the byte blocks of parts_to_add
QueuedBytes(mm) ==
    [i \in 1..Len(mm.parts_to_add) |-> mm.parts_to_add[i].byte_data]

\* for a closed file; pushed_size is never changed after construction
get_closed_file_checkpoint_data(mm) ==
    IF ~IsSome(mm.multipart_id)
    THEN IF mm.pushed_size = 0
         THEN Empty
         ELSE MultiPartNotCreated(QueuedBytes(mm), None)
    ELSE IF all_uploads_finished(mm)
         THEN MultiPartWriterUploadCompleted(Unwrap(mm.multipart_id),
                                             ContentIds(mm))
         ELSE MultiPartWriterClosed(Unwrap(mm.multipart_id), InFlightParts(mm))

\* MultipartManager::get_in_progress_checkpoint, for an open file
mm_get_in_progress_checkpoint(mm, trailing_bytes) ==
    IF ~IsSome(mm.multipart_id)
    THEN MultiPartNotCreated(QueuedBytes(mm), trailing_bytes)
    ELSE MultiPartInFlight(Unwrap(mm.multipart_id), InFlightParts(mm),
                           trailing_bytes)

(***************************************************************************)
(* BatchMultipartWriter over PassThrough and JsonWriter.                   *)
(***************************************************************************)
BatchMultipartWriter_new(path) ==
    [batch_buffering_writer |-> JsonWriter_new,
     multipart_manager |-> MultipartManager_new(path),
     stats |-> None]

name(w) == w.multipart_manager.location

\* result: the writer and the futures it returns (at most one)
\* (last_write_at and first_write_at are instants of the clock; the time
\* elapsed since them is an input of the policy check)
insert_value(w, value) ==
    LET stats1 == IF IsSome(w.stats) THEN Unwrap(w.stats)
                  ELSE [bytes_written |-> 0, parts_written |-> 0]
        batch == batch_builder_insert(value)
        prev_size == buffer_length(w.batch_buffering_writer)
    IN  IF IsSome(batch)
        THEN LET added == add_batch_data(w.batch_buffering_writer,
                                         Unwrap(batch))
             IN  IF IsSome(added.bytes)
                 THEN LET bytes == Unwrap(added.bytes)
                          written == write_next_part(w.multipart_manager,
                                                     bytes)
                      IN  [w |-> [batch_buffering_writer |-> added.bbw,
                                  multipart_manager |-> written.mm,
                                  stats |-> Some(
                                      [stats1 EXCEPT
                                         !.bytes_written =
                                             @ + Len(bytes) - prev_size,
                                         !.parts_written = @ + 1])],
                           futures |-> written.futures]
                 ELSE [w |-> [batch_buffering_writer |-> added.bbw,
                              multipart_manager |-> w.multipart_manager,
                              stats |-> Some(
                                  [stats1 EXCEPT
                                     !.bytes_written =
                                         @ + buffer_length(added.bbw)
                                           - prev_size])],
                       futures |-> {}]
        ELSE [w |-> [w EXCEPT !.stats = Some(stats1)], futures |-> {}]

write_closing_multipart(w) ==
    LET mm == [w.multipart_manager EXCEPT !.closed = TRUE]
        final_batch == None   \* buffered_inputs() is empty
        flushed == bbw_close(w.batch_buffering_writer, final_batch)
    IN  IF IsSome(flushed.bytes)
        THEN LET written == write_next_part(mm, Unwrap(flushed.bytes))
             IN  [w |-> [w EXCEPT !.batch_buffering_writer = flushed.bbw,
                                  !.multipart_manager = written.mm],
                  futures |-> written.futures]
        ELSE IF all_uploads_finished(mm)
             THEN [w |-> [w EXCEPT !.batch_buffering_writer = flushed.bbw,
                                   !.multipart_manager = mm],
                   futures |-> {UploadsFinishedFuture(mm.location)}]
             ELSE [w |-> [w EXCEPT !.batch_buffering_writer = flushed.bbw,
                                   !.multipart_manager = mm],
                   futures |-> {}]

\* BatchMultipartWriter::close
close(w) == write_closing_multipart(w)

\* BatchMultipartWriter::get_in_progress_checkpoint
get_in_progress_checkpoint(w) ==
    IF w.multipart_manager.closed
    THEN get_closed_file_checkpoint_data(w.multipart_manager)
    ELSE mm_get_in_progress_checkpoint(
             w.multipart_manager,
             get_trailing_bytes_for_checkpoint(w.batch_buffering_writer))

currently_buffered_data(w) == buffered_inputs

(***************************************************************************)
(* RollingPolicy.  Durations are counted in timer ticks.                   *)
(***************************************************************************)
file_settings ==
    [target_part_size |-> Some(TargetPartSize),
     max_parts |-> Some(MaxParts),
     target_file_size |-> None,
     inactivity_rollover_seconds |-> None,
     rollover_seconds |-> Some(RolloverTicks)]

\* unwrap_or(1000)
DefaultMaxParts == 1000
\* unwrap_or(30)
DefaultRolloverSeconds == 30

PartLimit(n) == [kind |-> "PartLimit", limit |-> n]
SizeLimit(n) == [kind |-> "SizeLimit", limit |-> n]
InactivityDuration(d) == [kind |-> "InactivityDuration", limit |-> d]
RolloverDuration(d) == [kind |-> "RolloverDuration", limit |-> d]

\* the policies of AnyPolicy, in the order they are pushed
from_file_settings(settings) ==
    <<PartLimit(IF IsSome(settings.max_parts)
                THEN Unwrap(settings.max_parts) ELSE DefaultMaxParts)>>
    \o (IF IsSome(settings.target_file_size)
        THEN <<SizeLimit(Unwrap(settings.target_file_size))>> ELSE <<>>)
    \o (IF IsSome(settings.inactivity_rollover_seconds)
        THEN <<InactivityDuration(
                   Unwrap(settings.inactivity_rollover_seconds))>>
        ELSE <<>>)
    \o <<RolloverDuration(IF IsSome(settings.rollover_seconds)
                          THEN Unwrap(settings.rollover_seconds)
                          ELSE DefaultRolloverSeconds)>>

\* one component policy; elapsed is what last_write_at.elapsed() and
\* first_write_at.elapsed() return
policy_holds(policy, stats, elapsed) ==
    CASE policy.kind = "PartLimit" -> stats.parts_written >= policy.limit
      [] policy.kind = "SizeLimit" -> stats.bytes_written >= policy.limit
      [] policy.kind = "InactivityDuration" ->
             elapsed.last_write >= policy.limit
      [] policy.kind = "RolloverDuration" ->
             elapsed.first_write >= policy.limit

\* an AnyPolicy that rolls only when every component policy holds
should_roll_every(policies, stats, elapsed) ==
    \A i \in 1..Len(policies) : policy_holds(policies[i], stats, elapsed)

\* AnyPolicy
should_roll(policies, stats, elapsed) ==
    \E i \in 1..Len(policies) : policy_holds(policies[i], stats, elapsed)

rolling_policy == from_file_settings(file_settings)

(***************************************************************************)
(* Object store: multipart uploads.  An upload is its path and the set of  *)
(* the parts add_multipart put into it; completed is the bag of the        *)
(* close_multipart calls.  A content id is the key the store returns for   *)
(* one uploaded part.                                                      *)
(***************************************************************************)
ObjectStore_new == [uploads |-> <<>>, completed |-> EmptyBag]

ContentId(part_index, bytes) == [part |-> part_index, etag |-> bytes]

\* the multipart id is the position of the upload in uploads
start_multipart(st, path) ==
    [store |-> [st EXCEPT !.uploads = Append(@, [path |-> path,
                                                 parts |-> {}])],
     multipart_id |-> Len(st.uploads) + 1]

add_multipart(st, path, multipart_id, part_index, bytes) ==
    [store |-> [st EXCEPT !.uploads[multipart_id].parts =
                    @ \cup {[part_index |-> part_index, data |-> bytes]}],
     upload_part |-> ContentId(part_index, bytes)]

close_multipart(st, path, multipart_id, parts) ==
    [st EXCEPT !.completed = @ (+) SetToBag({[path |-> path,
                                               multipart_id |-> multipart_id,
                                               parts |-> parts]})]

(***************************************************************************)
(* from_checkpoint: resume the upload of a recovered file.                 *)
(***************************************************************************)
FileToFinish(filename, multipart_id, completed_parts) ==
    [filename |-> filename, multi_part_upload_id |-> multipart_id,
     completed_parts |-> completed_parts]

RECURSIVE upload_parts_to_add(_, _, _, _, _)
\* parts_to_add.into_iter().enumerate(): block i is uploaded as part i
upload_parts_to_add(st, path, multipart_id, blocks, parts) ==
    IF blocks = <<>> THEN [store |-> st, parts |-> parts]
    ELSE LET up == add_multipart(st, path, multipart_id, Len(parts),
                                 Head(blocks))
         IN  upload_parts_to_add(up.store, path, multipart_id, Tail(blocks),
                                 Append(parts, up.upload_part))

RECURSIVE recover_in_flight_repeating(_, _, _, _, _, _)
\* a recovery that lists every finished part twice
recover_in_flight_repeating(st, path, multipart_id, entries, parts, recorded) ==
    IF entries = <<>> THEN [store |-> st, parts |-> parts]
    ELSE LET e == Head(entries)
         IN  IF e.tag = "FinishedPart"
             THEN recover_in_flight_repeating(
                      st, path, multipart_id, Tail(entries),
                      parts \o <<e.content_id, e.content_id>>, recorded)
             ELSE LET up == add_multipart(
                                st, path, multipart_id,
                                IF recorded THEN e.part ELSE Len(parts),
                                e.data)
                  IN  recover_in_flight_repeating(
                          up.store, path, multipart_id, Tail(entries),
                          Append(parts, up.upload_part), recorded)

RECURSIVE recover_in_flight_skipping(_, _, _, _, _, _)
\* a recovery that leaves the parts in progress out
recover_in_flight_skipping(st, path, multipart_id, entries, parts, recorded) ==
    IF entries = <<>> THEN [store |-> st, parts |-> parts]
    ELSE recover_in_flight_skipping(
             st, path, multipart_id, Tail(entries),
             IF Head(entries).tag = "FinishedPart"
             THEN Append(parts, Head(entries).content_id) ELSE parts,
             recorded)

RECURSIVE recover_in_flight(_, _, _, _, _, _)
\* the loop over in_flight_parts: a finished part keeps its content id, a part
\* in progress is uploaded again, at its recorded index (recorded) or at its
\* position in the list
recover_in_flight(st, path, multipart_id, entries, parts, recorded) ==
    IF entries = <<>> THEN [store |-> st, parts |-> parts]
    ELSE LET e == Head(entries)
         IN  IF e.tag = "FinishedPart"
             THEN recover_in_flight(st, path, multipart_id, Tail(entries),
                                    Append(parts, e.content_id), recorded)
             ELSE LET up == add_multipart(
                                st, path, multipart_id,
                                IF recorded THEN e.part ELSE Len(parts),
                                e.data)
                  IN  recover_in_flight(up.store, path, multipart_id,
                                        Tail(entries),
                                        Append(parts, up.upload_part),
                                        recorded)

\* a recovery that leaves out the trailing bytes when the upload already
\* holds a part at their index
upload_trailing_unless_present(st, path, multipart_id, trailing_bytes, parts) ==
    IF /\ IsSome(trailing_bytes)
       /\ ~\E p \in st.uploads[multipart_id].parts : p.part_index = Len(parts)
    THEN LET up == add_multipart(st, path, multipart_id, Len(parts),
                                 Unwrap(trailing_bytes))
         IN  [store |-> up.store, parts |-> Append(parts, up.upload_part)]
    ELSE [store |-> st, parts |-> parts]

\* the trailing bytes become the part after the ones listed
upload_trailing(st, path, multipart_id, trailing_bytes, parts) ==
    IF IsSome(trailing_bytes)
    THEN LET up == add_multipart(st, path, multipart_id, Len(parts),
                                 Unwrap(trailing_bytes))
         IN  [store |-> up.store, parts |-> Append(parts, up.upload_part)]
    ELSE [store |-> st, parts |-> parts]

\* result: the store after the calls, and the file to finish if any
from_checkpoint(st, path, checkpoint_data) ==
    CASE checkpoint_data.tag = "Empty" -> [store |-> st, file |-> None]
      [] checkpoint_data.tag = "MultiPartNotCreated" ->
            LET started == start_multipart(st, path)
                added == upload_parts_to_add(started.store, path,
                                             started.multipart_id,
                                             checkpoint_data.parts_to_add,
                                             <<>>)
                done == upload_trailing(added.store, path,
                                        started.multipart_id,
                                        checkpoint_data.trailing_bytes,
                                        added.parts)
            \* this arm pushes the uploaded parts onto a vector of its own
            \* (let mut parts, line 312); the file to finish is built from
            \* the vector declared before the match, which stays empty
            IN  [store |-> done.store,
                 file |-> Some(FileToFinish(path, started.multipart_id,
                                            <<>>))]
      [] checkpoint_data.tag = "MultiPartInFlight" ->
            LET id == checkpoint_data.multi_part_upload_id
                added == recover_in_flight(st, path, id,
                                           checkpoint_data.in_flight_parts,
                                           <<>>, TRUE)
                done == upload_trailing(added.store, path, id,
                                        checkpoint_data.trailing_bytes,
                                        added.parts)
            IN  [store |-> done.store,
                 file |-> Some(FileToFinish(path, id, done.parts))]
      [] checkpoint_data.tag = "MultiPartWriterClosed" ->
            LET id == checkpoint_data.multi_part_upload_id
                added == recover_in_flight(st, path, id,
                                           checkpoint_data.in_flight_parts,
                                           <<>>, FALSE)
            IN  [store |-> added.store,
                 file |-> Some(FileToFinish(path, id, added.parts))]
      [] checkpoint_data.tag = "MultiPartWriterUploadCompleted" ->
            [store |-> st,
             file |-> Some(FileToFinish(
                          path, checkpoint_data.multi_part_upload_id,
                          checkpoint_data.completed_parts))]

(***************************************************************************)
(* State.                                                                  *)
(***************************************************************************)
VARIABLES
    \* AsyncMultipartFileSystemWriter
    status,               \* "running", "failed" once run() returned an
                          \* error, "panicked" once it panicked
    pc,                   \* where run() is: "select", or inside the Checkpoint
                          \* arm ("flush_futures", "stop", "take_checkpoint")
    then_stop,            \* then_stop of the Checkpoint message being handled
    current_writer_name,
    max_file_index,
    subtask_id,
    writers,              \* name -> BatchMultipartWriter
    futures,              \* the FuturesUnordered pool
    files_to_finish,
    receiver,             \* FileSystemMessages in flight to the actor
    checkpoint_sender,    \* CheckpointData in flight to the facade
    \* the object store
    store,
    \* FileSystemSink and the operator that drives it
    facade_pc,            \* "idle", "checkpoint" or "commit": the call in progress
    runtime_pc,           \* "start", "running" or "stopped"
    stopping,             \* the last checkpoint was taken with stopping = true
    input,                \* the records the source has produced so far
    position,             \* how many of them were sent to the sink
    saved,                \* the last completed checkpoint, if any
    checkpoints,          \* number of checkpoints started
    crashes,              \* number of restarts
    task_info,            \* the TaskInfo of the subtask: [task_index]
    restored,             \* the DataRecovery values the operator hands to init
    \* StorageProvider (arroyo-storage) and the process it runs in
    env,                  \* the environment: variable name -> Option<String>
    captures,             \* the groups the S3 URL patterns captured
    config,               \* the result of BackendConfig::parse_s3, if called
    objects,              \* the paths that hold an object in the object store
    deleted,              \* the results delete_if_present returned so far
    \* a RollingPolicy built from file settings and asked about one writer
    policy_settings,      \* the FileSettings
    policy_stats,         \* the MultiPartWriterStats and the times elapsed
    policy_built,         \* the result of from_file_settings, if called
    policy_rolls,         \* the result of should_roll, if called
    \* CheckpointState (arroyo-controller): the checkpoint of one epoch
    tasks_per_operator,   \* operator id -> number of subtasks
    tasks,                \* operator id -> (subtask index -> SubtaskState)
    completed_operators,
    subtasks_to_commit,
    operator_details,     \* operator id -> OperatorCheckpointDetail
    operator_checkpoints, \* the OperatorCheckpointMetadata written so far
    last_call,            \* the last call on the CheckpointState, its result
    \* history
    out_of_order,         \* writers that had a part acknowledged while a part
                          \* of lower index was still buffered
    outstanding,          \* the pool when the last Checkpoint message was taken
    max_opened,           \* highest file index any actor of the subtask opened
    committed_files,      \* the pre-commit files whose commit() has returned
    recovered_commit,     \* "pending" after a crash between checkpoint() and
                          \* commit(), "done" once the new actor committed
    recovered_trailing,   \* files an Init recovered with trailing bytes
    recoveries            \* what each Init after a restart recovered

writer_vars == <<writers, futures, files_to_finish>>
index_vars == <<current_writer_name, max_file_index, subtask_id>>
actor_vars == <<status, pc, then_stop, index_vars, writer_vars>>
channel_vars == <<receiver, checkpoint_sender>>
source_vars == <<input, position>>
task_vars == <<task_info, restored>>
storage_vars == <<env, captures, config, objects, deleted>>
policy_vars == <<policy_settings, policy_stats, policy_built, policy_rolls>>
controller_vars == <<tasks_per_operator, tasks, completed_operators,
                     subtasks_to_commit, operator_details,
                     operator_checkpoints, last_call>>
runtime_vars == <<facade_pc, runtime_pc, stopping, source_vars, saved,
                  checkpoints, crashes, task_vars, storage_vars,
                  policy_vars, controller_vars>>
history_vars == <<out_of_order, outstanding, max_opened, committed_files,
                  recovered_commit, recovered_trailing,
                  recoveries>>
vars == <<actor_vars, channel_vars, store, runtime_vars, history_vars>>

\* the orders in which the elements of a finite set can be visited
Orders(S) ==
    {s \in [1..Cardinality(S) -> S] :
        \A i, j \in 1..Cardinality(S) : i # j => s[i] # s[j]}

\* a removal that leaves the map as it is
Remove_nothing(map, key) == map

\* a map without one key
Remove(map, key) == [k \in DOMAIN map \ {key} |-> map[k]]
\* a map with one key set
Insert(map, key, value) ==
    [k \in DOMAIN map \cup {key} |-> IF k = key THEN value ELSE map[k]]

\* FileSystemMessages
DataMessage(value) == [kind |-> "Data", value |-> value]
InitMessage(index, subtask, recovered_files) ==
    [kind |-> "Init", max_file_index |-> index, subtask_id |-> subtask,
     recovered_files |-> recovered_files]
CheckpointMessage(subtask, stop) ==
    [kind |-> "Checkpoint", subtask_id |-> subtask, then_stop |-> stop]
FilesToFinishMessage(files) == [kind |-> "FilesToFinish", files |-> files]

\* CheckpointData
InProgressFileCheckpoint(filename, data, buffered_data) ==
    [kind |-> "InProgressFileCheckpoint", filename |-> filename,
     data |-> data, buffered_data |-> buffered_data]
Finished(index) == [kind |-> "Finished", max_file_index |-> index]

\* AsyncMultipartFileSystemWriter::new
ActorNew ==
    /\ status = "running"
    /\ pc = "select"
    /\ then_stop = FALSE
    /\ current_writer_name = <<>>
    /\ max_file_index = 0
    /\ subtask_id = 0
    /\ writers = <<>>
    /\ futures = {}
    /\ files_to_finish = <<>>

\* the names of the environment variables parse_s3 reads; S3_REGION_ENV and
\* S3_ENDPOINT_ENV stand for the variables those constants name
EnvNames ==
    {"AWS_DEFAULT_REGION", "S3_REGION_ENV", "AWS_ENDPOINT", "S3_ENDPOINT_ENV"}

\* a process that has not parsed an S3 URL and holds no StorageProvider
NoStorage ==
    /\ env = [n \in EnvNames |-> None]
    /\ captures = None
    /\ config = None
    /\ objects = {}
    /\ deleted = <<>>

\* no RollingPolicy is looked at apart from the actor's
NoPolicy ==
    /\ policy_settings = None
    /\ policy_stats = None
    /\ policy_built = None
    /\ policy_rolls = None

\* no checkpoint is in progress in the controller
NoCheckpoint ==
    /\ tasks_per_operator = <<>>
    /\ tasks = <<>>
    /\ completed_operators = {}
    /\ subtasks_to_commit = {}
    /\ operator_details = <<>>
    /\ operator_checkpoints = <<>>
    /\ last_call = None

\* the sink runs without a StorageProvider, a policy or a controller aside
SinkAlone == NoStorage /\ NoPolicy /\ NoCheckpoint

\* FileSystemSink::from_config: the actor and the two channels
from_config ==
    /\ ActorNew
    /\ receiver = <<>>
    /\ checkpoint_sender = <<>>
    /\ store = ObjectStore_new
    /\ facade_pc = "idle"
    /\ runtime_pc = "start"
    /\ stopping = FALSE
    /\ input = <<>>
    /\ position = 0
    /\ saved = None
    /\ checkpoints = 0
    /\ crashes = 0
    /\ task_info = [task_index |-> TaskIndex]
    /\ restored = <<>>
    /\ out_of_order = {}
    /\ outstanding = {}
    /\ max_opened = -1
    /\ committed_files = {}
    /\ recovered_commit = "no"
    /\ recovered_trailing = {}
    /\ recoveries = <<>>

\* the state after construction
Init == SinkAlone /\ from_config

(***************************************************************************)
(* The actor.                                                              *)
(***************************************************************************)
new_writer(index, subtask) == BatchMultipartWriter_new(FileName(index, subtask))

\* the store call a future makes, and the callback it completes with
run_future(st, f) ==
    CASE f.kind = "InitializedMultipart" ->
            LET started == start_multipart(st, f.name)
            IN  [store |-> started.store,
                 callback |-> [kind |-> "InitializedMultipart",
                               multipart_id |-> started.multipart_id]]
      [] f.kind = "CompletedPart" ->
            LET up == add_multipart(st, f.name, f.multipart_id, f.part_index,
                                    f.byte_data)
            IN  [store |-> up.store,
                 callback |-> [kind |-> "CompletedPart",
                               part_idx |-> f.part_index,
                               upload_part |-> up.upload_part]]
      [] f.kind = "UploadsFinished" ->
            [store |-> st, callback |-> [kind |-> "UploadsFinished"]]

\* result: the writer map, the futures to add to the pool, the file to append
\* to files_to_finish if any, whether the call failed, and whether it failed
\* by a panic or by an error ("missing writer ...")
process_callback(ws, writer_name, callback) ==
    IF writer_name \notin DOMAIN ws
    THEN [writers |-> ws, futures |-> {}, file |-> None, failed |-> TRUE,
          panic |-> FALSE]
    ELSE
    LET writer == ws[writer_name] IN
    CASE callback.kind = "InitializedMultipart" ->
            LET r == handle_initialization(writer.multipart_manager,
                                           callback.multipart_id)
            IN  [writers |-> [ws EXCEPT ![writer_name].multipart_manager = r.mm],
                 futures |-> r.futures, file |-> None, failed |-> FALSE,
                 panic |-> FALSE]
      [] callback.kind = "CompletedPart" ->
            LET r == handle_completed_part(writer.multipart_manager,
                                           callback.part_idx,
                                           callback.upload_part)
            IN  IF r.failed
                THEN [writers |-> ws, futures |-> {}, file |-> None,
                      failed |-> TRUE, panic |-> r.panic]
                ELSE IF IsSome(r.file)
                THEN [writers |-> Remove(ws, writer_name), futures |-> {},
                      file |-> r.file, failed |-> FALSE, panic |-> FALSE]
                ELSE [writers |-> [ws EXCEPT
                                     ![writer_name].multipart_manager = r.mm],
                      futures |-> {}, file |-> None, failed |-> FALSE,
                      panic |-> FALSE]
      [] callback.kind = "UploadsFinished" ->
            LET r == get_finished_file(writer.multipart_manager)
            IN  IF r.failed
                THEN [writers |-> ws, futures |-> {}, file |-> None,
                      failed |-> TRUE, panic |-> r.panic]
                ELSE [writers |-> Remove(ws, writer_name), futures |-> {},
                      file |-> r.file, failed |-> FALSE, panic |-> FALSE]

\* whether the part a future uploads is acknowledged while a part of lower
\* index of the same writer is still buffered
OvertakesLowerPart(f) ==
    /\ f.kind = "CompletedPart"
    /\ f.name \in DOMAIN writers
    /\ LET slots == writers[f.name].multipart_manager.pushed_parts
       IN  \E i \in 1..f.part_index :
              i <= Len(slots) /\ slots[i].tag = "BufferedData"

\* one future of the pool completes and its callback is processed; used by
\* the futures arm of select!, by flush_futures and by stop
complete_future(f) ==
    LET ran == run_future(store, f)
        done == process_callback(writers, f.name, ran.callback)
    IN  /\ store' = ran.store
        /\ out_of_order' = IF OvertakesLowerPart(f)
                           THEN out_of_order \cup {f.name} ELSE out_of_order
        /\ IF done.failed
           THEN /\ status' = IF done.panic THEN "panicked" ELSE "failed"
                /\ futures' = futures \ {f}
                /\ UNCHANGED <<writers, files_to_finish>>
           ELSE /\ status' = status
                /\ writers' = done.writers
                /\ futures' = (futures \ {f}) \cup done.futures
                /\ files_to_finish' =
                       IF IsSome(done.file)
                       THEN Append(files_to_finish, Unwrap(done.file))
                       ELSE files_to_finish

\* the actor has not failed
Running == status = "running"

\* a select! that takes messages and ticks while an arm is being handled
Selecting_while_handling == status = "running"

\* run() is at the select! of its loop
Selecting == Running /\ pc = "select"

\* the futures arm of select!
FutureCompletes ==
    /\ Selecting
    /\ \E f \in futures : complete_future(f)
    /\ UNCHANGED <<pc, then_stop, index_vars, channel_vars, runtime_vars,
                   outstanding, max_opened, committed_files, recovered_commit,
                   recovered_trailing, recoveries>>

\* a Data arm that drops the record when there is no current writer
ReceiveData_dropping ==
    /\ Selecting
    /\ receiver # <<>> /\ Head(receiver).kind = "Data"
    /\ receiver' = Tail(receiver)
    /\ IF current_writer_name \notin DOMAIN writers
       THEN UNCHANGED <<status, writers, futures>>
       ELSE LET r == insert_value(writers[current_writer_name],
                                  Head(receiver).value)
            IN  /\ writers' = [writers EXCEPT ![current_writer_name] = r.w]
                /\ futures' = futures \cup r.futures
                /\ status' = status
    /\ UNCHANGED <<pc, then_stop, index_vars, files_to_finish,
                   checkpoint_sender, store, runtime_vars, history_vars>>

\* FileSystemMessages::Data
ReceiveData ==
    /\ Selecting
    /\ receiver # <<>> /\ Head(receiver).kind = "Data"
    /\ receiver' = Tail(receiver)
    /\ IF current_writer_name \notin DOMAIN writers
       THEN /\ status' = "failed"
            /\ UNCHANGED <<writers, futures>>
       ELSE LET r == insert_value(writers[current_writer_name],
                                  Head(receiver).value)
            IN  /\ writers' = [writers EXCEPT ![current_writer_name] = r.w]
                /\ futures' = futures \cup r.futures
                /\ status' = status
    /\ UNCHANGED <<pc, then_stop, index_vars, files_to_finish,
                   checkpoint_sender, store, runtime_vars, history_vars>>

RECURSIVE insert_all_newest_first(_, _)
\* a loop over buffered_data that starts from the last record
insert_all_newest_first(w, values) ==
    IF values = <<>> THEN [w |-> w, futures |-> {}]
    ELSE LET first == insert_value(w, values[Len(values)])
             rest == insert_all_newest_first(
                         first.w, SubSeq(values, 1, Len(values) - 1))
         IN  [w |-> rest.w, futures |-> first.futures \cup rest.futures]

RECURSIVE insert_all(_, _)
\* the loop over a recovered file's buffered_data
insert_all(w, values) ==
    IF values = <<>> THEN [w |-> w, futures |-> {}]
    ELSE LET first == insert_value(w, Head(values))
             rest == insert_all(first.w, Tail(values))
         IN  [w |-> rest.w, futures |-> first.futures \cup rest.futures]

RECURSIVE recover_files_finishing(_, _)
\* an Init that finishes the recovered files itself, without a commit
recover_files_finishing(acc, recovered_files) ==
    IF recovered_files = <<>> THEN acc
    ELSE LET file == Head(recovered_files)
             rec == from_checkpoint(acc.store, file.filename, file.data)
             fed == insert_all(acc.writer, file.buffered_data)
         IN  recover_files_finishing(
                 [store |-> IF IsSome(rec.file)
                            THEN close_multipart(
                                     rec.store, Unwrap(rec.file).filename,
                                     Unwrap(rec.file).multi_part_upload_id,
                                     Unwrap(rec.file).completed_parts)
                            ELSE rec.store,
                  writer |-> fed.w,
                  futures |-> acc.futures \cup fed.futures,
                  files |-> acc.files],
                 Tail(recovered_files))

RECURSIVE recover_files_newest_first(_, _)
\* an Init that lists the parts of a recovered file from the last to the
\* first
recover_files_newest_first(acc, recovered_files) ==
    IF recovered_files = <<>> THEN acc
    ELSE LET file == Head(recovered_files)
             rec == from_checkpoint(acc.store, file.filename, file.data)
             fed == insert_all(acc.writer, file.buffered_data)
             ids == IF IsSome(rec.file)
                    THEN Unwrap(rec.file).completed_parts ELSE <<>>
         IN  recover_files_newest_first(
                 [store |-> rec.store,
                  writer |-> fed.w,
                  futures |-> acc.futures \cup fed.futures,
                  files |-> IF IsSome(rec.file)
                            THEN Append(acc.files,
                                        [Unwrap(rec.file) EXCEPT
                                           !.completed_parts =
                                               [i \in 1..Len(ids) |->
                                                   ids[Len(ids) + 1 - i]]])
                            ELSE acc.files],
                 Tail(recovered_files))

RECURSIVE recover_files(_, _)
\* the loop over recovered_files; acc is [store, writer, futures, files]
recover_files(acc, recovered_files) ==
    IF recovered_files = <<>> THEN acc
    ELSE LET file == Head(recovered_files)
             rec == from_checkpoint(acc.store, file.filename, file.data)
             fed == insert_all(acc.writer, file.buffered_data)
         IN  recover_files(
                 [store |-> rec.store,
                  writer |-> fed.w,
                  futures |-> acc.futures \cup fed.futures,
                  files |-> IF IsSome(rec.file)
                            THEN Append(acc.files, Unwrap(rec.file))
                            ELSE acc.files],
                 Tail(recovered_files))

\* a file to finish as its name and the ordered contents of its parts
RecoveredFile(f) ==
    [filename |-> f.filename,
     contents |-> [i \in 1..Len(f.completed_parts) |->
                      f.completed_parts[i].etag]]

\* the recovered files whose checkpoint holds trailing bytes
WithTrailingBytes(recovered_files) ==
    {recovered_files[i] : i \in
        {j \in 1..Len(recovered_files) :
            /\ recovered_files[j].data.tag
                   \in {"MultiPartNotCreated", "MultiPartInFlight"}
            /\ IsSome(recovered_files[j].data.trailing_bytes)}}

\* FileSystemMessages::Init
ReceiveInit ==
    /\ Selecting
    /\ receiver # <<>> /\ Head(receiver).kind = "Init"
    /\ receiver' = Tail(receiver)
    /\ LET msg == Head(receiver)
           closing == IF current_writer_name \in DOMAIN writers
                      THEN close(writers[current_writer_name])
                      ELSE [w |-> None, futures |-> {}]
           closed_ws == IF current_writer_name \in DOMAIN writers
                        THEN [writers EXCEPT ![current_writer_name] = closing.w]
                        ELSE writers
           fresh == new_writer(msg.max_file_index, msg.subtask_id)
           rec == recover_files([store |-> store, writer |-> fresh,
                                 futures |-> {}, files |-> files_to_finish],
                                msg.recovered_files)
       IN  /\ max_file_index' = msg.max_file_index
           /\ subtask_id' = msg.subtask_id
           /\ current_writer_name' = name(fresh)
           /\ writers' = Insert(closed_ws, name(fresh), rec.writer)
           /\ futures' = futures \cup closing.futures \cup rec.futures
           /\ files_to_finish' = rec.files
           /\ store' = rec.store
           /\ max_opened' = Max(max_opened, msg.max_file_index)
           /\ recoveries' =
                  IF crashes >= 1
                  THEN Append(recoveries,
                              [checkpoints |-> checkpoints,
                               message |-> msg,
                               files |-> {RecoveredFile(rec.files[i]) :
                                             i \in 1..Len(rec.files)}])
                  ELSE recoveries
    /\ UNCHANGED <<status, pc, then_stop, checkpoint_sender, runtime_vars,
                   out_of_order, outstanding, committed_files,
                   recovered_commit>>
    /\ recovered_trailing' =
           recovered_trailing
           \cup {f.filename : f \in WithTrailingBytes(
                                       Head(receiver).recovered_files)}

\* FileSystemMessages::Checkpoint: the arm starts with flush_futures
ReceiveCheckpoint ==
    /\ Selecting
    /\ receiver # <<>> /\ Head(receiver).kind = "Checkpoint"
    /\ receiver' = Tail(receiver)
    /\ pc' = "flush_futures"
    /\ then_stop' = Head(receiver).then_stop
    /\ outstanding' = futures
    /\ UNCHANGED <<status, index_vars, writer_vars, checkpoint_sender, store,
                   runtime_vars, out_of_order, max_opened, committed_files,
                   recovered_commit,
                   recovered_trailing, recoveries>>

\* flush_futures: one turn of the while-let loop
FlushFuture ==
    /\ Running /\ pc = "flush_futures"
    /\ \E f \in futures : complete_future(f)
    /\ UNCHANGED <<pc, then_stop, index_vars, channel_vars, runtime_vars,
                   outstanding, max_opened, committed_files, recovered_commit,
                   recovered_trailing, recoveries>>

\* a flush_futures that returns while futures are still in the pool
FlushDone_without_drain ==
    /\ Running /\ pc = "flush_futures"
    /\ IF then_stop
       THEN /\ pc' = "stop"
            /\ IF current_writer_name \in DOMAIN writers
               THEN LET r == close(writers[current_writer_name])
                    IN  /\ writers' = [writers EXCEPT
                                         ![current_writer_name] = r.w]
                        /\ futures' = futures \cup r.futures
               ELSE UNCHANGED <<writers, futures>>
       ELSE /\ pc' = "take_checkpoint"
            /\ UNCHANGED <<writers, futures>>
    /\ UNCHANGED <<status, then_stop, index_vars, files_to_finish,
                   channel_vars, store, runtime_vars, history_vars>>

\* a flush_futures that awaits the futures that were in the pool when the
\* message was taken, and not the futures their callbacks added
FlushDone_after_first_round ==
    /\ Running /\ pc = "flush_futures"
    /\ futures \cap outstanding = {}
    /\ IF then_stop
       THEN /\ pc' = "stop"
            /\ IF current_writer_name \in DOMAIN writers
               THEN LET r == close(writers[current_writer_name])
                    IN  /\ writers' = [writers EXCEPT
                                         ![current_writer_name] = r.w]
                        /\ futures' = futures \cup r.futures
               ELSE UNCHANGED <<writers, futures>>
       ELSE /\ pc' = "take_checkpoint"
            /\ UNCHANGED <<writers, futures>>
    /\ UNCHANGED <<status, then_stop, index_vars, files_to_finish,
                   channel_vars, store, runtime_vars, history_vars>>

\* flush_futures returns; with then_stop, stop() closes the current writer
FlushDone ==
    /\ Running /\ pc = "flush_futures"
    /\ futures = {}
    /\ IF then_stop
       THEN /\ pc' = "stop"
            /\ IF current_writer_name \in DOMAIN writers
               THEN LET r == close(writers[current_writer_name])
                    IN  /\ writers' = [writers EXCEPT
                                         ![current_writer_name] = r.w]
                        /\ futures' = futures \cup r.futures
               ELSE UNCHANGED <<writers, futures>>
       ELSE /\ pc' = "take_checkpoint"
            /\ UNCHANGED <<writers, futures>>
    /\ UNCHANGED <<status, then_stop, index_vars, files_to_finish,
                   channel_vars, store, runtime_vars, history_vars>>

\* stop: one turn of the while-let loop
StopFuture ==
    /\ Running /\ pc = "stop"
    /\ \E f \in futures : complete_future(f)
    /\ UNCHANGED <<pc, then_stop, index_vars, channel_vars, runtime_vars,
                   outstanding, max_opened, committed_files, recovered_commit,
                   recovered_trailing, recoveries>>

\* stop returns
StopDone ==
    /\ Running /\ pc = "stop"
    /\ futures = {}
    /\ pc' = "take_checkpoint"
    /\ UNCHANGED <<status, then_stop, index_vars, writer_vars, channel_vars,
                   store, runtime_vars, history_vars>>

\* the artifacts take_checkpoint sends, the writers visited in the given order
checkpoint_artifacts(ws, order, files) ==
    [i \in 1..Len(order) |->
        InProgressFileCheckpoint(order[i],
                                 get_in_progress_checkpoint(ws[order[i]]),
                                 currently_buffered_data(ws[order[i]]))]
    \o [i \in 1..Len(files) |->
        InProgressFileCheckpoint(
            files[i].filename,
            MultiPartWriterUploadCompleted(files[i].multi_part_upload_id,
                                           files[i].completed_parts),
            <<>>)]

\* a take_checkpoint that leaves the pending files in the list
TakeCheckpoint_keeping ==
    /\ Running /\ pc = "take_checkpoint"
    /\ \E order \in Orders(DOMAIN writers) :
          checkpoint_sender' =
              checkpoint_sender
              \o checkpoint_artifacts(writers, order, files_to_finish)
              \o <<Finished(max_file_index)>>
    /\ pc' = "select"
    /\ outstanding' = {}
    /\ UNCHANGED <<status, then_stop, index_vars, writer_vars, receiver,
                   store, runtime_vars, out_of_order, max_opened,
                   committed_files, recovered_commit,
                   recovered_trailing, recoveries>>

\* take_checkpoint, then the Finished message that ends the arm
TakeCheckpoint ==
    /\ Running /\ pc = "take_checkpoint"
    /\ \E order \in Orders(DOMAIN writers) :
          checkpoint_sender' =
              checkpoint_sender
              \o checkpoint_artifacts(writers, order, files_to_finish)
              \o <<Finished(max_file_index)>>
    /\ files_to_finish' = <<>>
    /\ pc' = "select"
    /\ outstanding' = {}
    /\ UNCHANGED <<status, then_stop, index_vars, writers, futures, receiver,
                   store, runtime_vars, out_of_order, max_opened,
                   committed_files, recovered_commit,
                   recovered_trailing, recoveries>>

\* a finish_file that closes the upload of a file without parts as well
finish_file_closing_empty(st, file_to_finish) ==
    close_multipart(st, file_to_finish.filename,
                    file_to_finish.multi_part_upload_id,
                    file_to_finish.completed_parts)

\* a file with no completed part is skipped
finish_file(st, file_to_finish) ==
    IF Len(file_to_finish.completed_parts) = 0 THEN st
    ELSE close_multipart(st, file_to_finish.filename,
                         file_to_finish.multi_part_upload_id,
                         file_to_finish.completed_parts)

RECURSIVE finish_files(_, _)
\* the loop over the files of a FilesToFinish message
finish_files(st, files) ==
    IF files = <<>> THEN st
    ELSE finish_files(finish_file(st, Head(files)), Tail(files))

\* FileSystemMessages::FilesToFinish
ReceiveFilesToFinish ==
    /\ Selecting
    /\ receiver # <<>> /\ Head(receiver).kind = "FilesToFinish"
    /\ receiver' = Tail(receiver)
    /\ store' = finish_files(store, Head(receiver).files)
    /\ checkpoint_sender' = Append(checkpoint_sender, Finished(max_file_index))
    /\ UNCHANGED <<actor_vars, runtime_vars, history_vars>>

\* the times a policy check can find elapsed since the last and the first
\* write of the current writer: the last write is not before the first
Elapsed ==
    {e \in [last_write : {0, RolloverTicks}, first_write : {0, RolloverTicks}] :
        e.last_write <= e.first_write}

\* a roll that opens the new writer under the index of the one it closes
policy_check_same_index(elapsed) ==
    IF /\ current_writer_name \in DOMAIN writers
       /\ IsSome(writers[current_writer_name].stats)
       /\ should_roll(rolling_policy,
                      Unwrap(writers[current_writer_name].stats), elapsed)
    THEN LET r == close(writers[current_writer_name])
             fresh == new_writer(max_file_index, subtask_id)
         IN  [writers |-> Insert([writers EXCEPT
                                    ![current_writer_name] = r.w],
                                 name(fresh), fresh),
              futures |-> futures \cup r.futures,
              max_file_index |-> max_file_index,
              current_writer_name |-> name(fresh)]
    ELSE [writers |-> writers, futures |-> futures,
          max_file_index |-> max_file_index,
          current_writer_name |-> current_writer_name]

\* a roll that takes the writer it closes out of the writer map at once
policy_check_dropping_closed(elapsed) ==
    IF /\ current_writer_name \in DOMAIN writers
       /\ IsSome(writers[current_writer_name].stats)
       /\ should_roll(rolling_policy,
                      Unwrap(writers[current_writer_name].stats), elapsed)
    THEN LET r == close(writers[current_writer_name])
             fresh == new_writer(max_file_index + 1, subtask_id)
         IN  [writers |-> Insert(Remove(writers, current_writer_name),
                                 name(fresh), fresh),
              futures |-> futures \cup r.futures,
              max_file_index |-> max_file_index + 1,
              current_writer_name |-> name(fresh)]
    ELSE [writers |-> writers, futures |-> futures,
          max_file_index |-> max_file_index,
          current_writer_name |-> current_writer_name]

\* a roll that leaves the writer it closes the current writer
policy_check_keeping_current(elapsed) ==
    IF /\ current_writer_name \in DOMAIN writers
       /\ IsSome(writers[current_writer_name].stats)
       /\ should_roll(rolling_policy,
                      Unwrap(writers[current_writer_name].stats), elapsed)
    THEN LET r == close(writers[current_writer_name])
             fresh == new_writer(max_file_index + 1, subtask_id)
         IN  [writers |-> Insert([writers EXCEPT
                                    ![current_writer_name] = r.w],
                                 name(fresh), fresh),
              futures |-> futures \cup r.futures,
              max_file_index |-> max_file_index + 1,
              current_writer_name |-> current_writer_name]
    ELSE [writers |-> writers, futures |-> futures,
          max_file_index |-> max_file_index,
          current_writer_name |-> current_writer_name]

\* what the policy arm of select! does to the writer map, the pool,
\* max_file_index and the current writer, for the elapsed times it finds
policy_check(elapsed) ==
    IF /\ current_writer_name \in DOMAIN writers
       /\ IsSome(writers[current_writer_name].stats)
       /\ should_roll(rolling_policy,
                      Unwrap(writers[current_writer_name].stats), elapsed)
    THEN LET r == close(writers[current_writer_name])
             fresh == new_writer(max_file_index + 1, subtask_id)
         IN  [writers |-> Insert([writers EXCEPT
                                    ![current_writer_name] = r.w],
                                 name(fresh), fresh),
              futures |-> futures \cup r.futures,
              max_file_index |-> max_file_index + 1,
              current_writer_name |-> name(fresh)]
    ELSE [writers |-> writers, futures |-> futures,
          max_file_index |-> max_file_index,
          current_writer_name |-> current_writer_name]

\* the timer arm of select!
Tick ==
    /\ Selecting
    /\ \E elapsed \in Elapsed :
       LET r == policy_check(elapsed)
       IN  /\ writers' = r.writers
           /\ futures' = r.futures
           /\ max_file_index' = r.max_file_index
           /\ current_writer_name' = r.current_writer_name
           /\ max_opened' = IF r.max_file_index # max_file_index
                            THEN Max(max_opened, r.max_file_index)
                            ELSE max_opened
    /\ UNCHANGED <<status, pc, then_stop, subtask_id, files_to_finish,
                   channel_vars, store, runtime_vars, out_of_order,
                   outstanding, committed_files, recovered_commit,
                   recovered_trailing, recoveries>>

(***************************************************************************)
(* FileSystemSink (the two-phase committer) and the operator calling it.   *)
(***************************************************************************)
FileSystemDataRecovery(next_file_index, active_files) ==
    [next_file_index |-> next_file_index, active_files |-> active_files]

RECURSIVE init_message_for_every_task(_, _, _, _)
\* an init that hands the recovered files to every subtask
init_message_for_every_task(task_index, data_recovery, index, recovered_files) ==
    IF data_recovery = <<>>
    THEN InitMessage(index, task_index, recovered_files)
    ELSE init_message_for_every_task(
             task_index, Tail(data_recovery),
             Max(index, Head(data_recovery).next_file_index),
             recovered_files \o Head(data_recovery).active_files)

RECURSIVE init_message(_, _, _, _)
\* the loop of FileSystemSink::init over data_recovery, and the message sent
init_message(task_index, data_recovery, index, recovered_files) ==
    IF data_recovery = <<>>
    THEN InitMessage(index, task_index, recovered_files)
    ELSE init_message(task_index, Tail(data_recovery),
                      Max(index, Head(data_recovery).next_file_index),
                      IF task_index = 0
                      THEN recovered_files \o Head(data_recovery).active_files
                      ELSE recovered_files)

\* the operator starts the sink: init with the restored state, if any
SinkInit ==
    /\ runtime_pc = "start"
    /\ Len(receiver) < ChannelCapacity
    /\ receiver' = Append(receiver,
                          init_message(task_info.task_index, restored,
                                       0, <<>>))
    /\ runtime_pc' = "running"
    /\ UNCHANGED <<actor_vars, checkpoint_sender, store, facade_pc, stopping,
                   source_vars, saved, checkpoints, crashes, task_vars,
                   storage_vars,
                   policy_vars, controller_vars, history_vars>>

\* the last checkpoint's pre-commit files still have to be committed
CommitPending == IsSome(saved) /\ ~Unwrap(saved).committed

\* insert_record: the next record of the source, or after a restart the
\* record the source replays; a subtask restarted a second time from the
\* same state is followed to its checkpoint and commit without more input
InsertRecord ==
    /\ runtime_pc = "running" /\ facade_pc = "idle" /\ ~stopping
    /\ ~CommitPending
    /\ crashes <= MaxCrashes
    /\ position < MaxRecords
    /\ Len(receiver) < ChannelCapacity
    /\ \E value \in RecordValues(position + 1) :
          /\ position < Len(input) => value = input[position + 1]
          /\ input' = IF position < Len(input) THEN input
                      ELSE Append(input, value)
          /\ receiver' = Append(receiver, DataMessage(value))
    /\ position' = position + 1
    /\ UNCHANGED <<actor_vars, checkpoint_sender, store, facade_pc,
                   runtime_pc, stopping, saved, checkpoints, crashes,
                   task_vars, storage_vars,
                   policy_vars, controller_vars, history_vars>>

\* checkpoint(): the Checkpoint message is sent
CheckpointCall ==
    /\ runtime_pc = "running" /\ facade_pc = "idle" /\ ~stopping
    /\ ~CommitPending
    /\ checkpoints < MaxCheckpoints
    /\ Len(receiver) < ChannelCapacity
    /\ \E stop \in BOOLEAN :
          /\ receiver' = Append(receiver, CheckpointMessage(task_info.task_index,
                                                    stop))
          /\ stopping' = stop
    /\ facade_pc' = "checkpoint"
    /\ checkpoints' = checkpoints + 1
    /\ UNCHANGED <<actor_vars, checkpoint_sender, store, runtime_pc,
                   source_vars, saved, crashes, task_vars, storage_vars,
                   policy_vars, controller_vars,
                   history_vars>>

\* position of the first Finished message in a channel, 0 if none
FirstFinished(channel) ==
    IF \E i \in 1..Len(channel) : channel[i].kind = "Finished"
    THEN CHOOSE i \in 1..Len(channel) :
            /\ channel[i].kind = "Finished"
            /\ \A j \in 1..(i - 1) : channel[j].kind # "Finished"
    ELSE 0

RECURSIVE collect_completed_only(_, _, _)
\* a receive loop that keeps the completed files and forgets the others
collect_completed_only(messages, pre_commit_messages, active_files) ==
    IF messages = <<>>
    THEN [pre_commit_messages |-> pre_commit_messages,
          active_files |-> active_files]
    ELSE LET m == Head(messages)
         IN  IF m.data.tag = "MultiPartWriterUploadCompleted"
             THEN collect_completed_only(
                      Tail(messages),
                      Insert(pre_commit_messages, m.filename,
                             FileToFinish(m.filename,
                                          m.data.multi_part_upload_id,
                                          m.data.completed_parts)),
                      active_files)
             ELSE collect_completed_only(Tail(messages), pre_commit_messages,
                                         active_files)

RECURSIVE collect(_, _, _)
\* the receive loop of checkpoint() over the messages before Finished
collect(messages, pre_commit_messages, active_files) ==
    IF messages = <<>>
    THEN [pre_commit_messages |-> pre_commit_messages,
          active_files |-> active_files]
    ELSE LET m == Head(messages)
         IN  IF m.data.tag = "MultiPartWriterUploadCompleted"
             THEN collect(Tail(messages),
                          Insert(pre_commit_messages, m.filename,
                                 FileToFinish(m.filename,
                                              m.data.multi_part_upload_id,
                                              m.data.completed_parts)),
                          active_files)
             ELSE collect(Tail(messages), pre_commit_messages,
                          Append(active_files,
                                 [filename |-> m.filename, data |-> m.data,
                                  buffered_data |-> m.buffered_data]))

\* a checkpoint() that returns the highest index as the next one
checkpoint_result_same_index(channel) ==
    LET n == FirstFinished(channel)
        got == collect(SubSeq(channel, 1, n - 1), <<>>, <<>>)
    IN  [data_recovery |->
             FileSystemDataRecovery(channel[n].max_file_index,
                                    got.active_files),
         pre_commit |-> got.pre_commit_messages]

\* what checkpoint() returns for the messages up to the first Finished
checkpoint_result(channel) ==
    LET n == FirstFinished(channel)
        got == collect(SubSeq(channel, 1, n - 1), <<>>, <<>>)
    IN  [data_recovery |->
             FileSystemDataRecovery(channel[n].max_file_index + 1,
                                    got.active_files),
         pre_commit |-> got.pre_commit_messages]

\* checkpoint() returns; the operator keeps the result and the source offset
CheckpointReturn ==
    /\ facade_pc = "checkpoint"
    /\ FirstFinished(checkpoint_sender) > 0
    /\ LET n == FirstFinished(checkpoint_sender)
           result == checkpoint_result(checkpoint_sender)
       IN  /\ checkpoint_sender' =
                  SubSeq(checkpoint_sender, n + 1, Len(checkpoint_sender))
           /\ saved' = Some([data_recovery |-> result.data_recovery,
                             pre_commit |-> result.pre_commit,
                             position |-> position,
                             committed |-> FALSE])
    /\ facade_pc' = "idle"
    /\ UNCHANGED <<actor_vars, receiver, store, runtime_pc, stopping,
                   source_vars, checkpoints, crashes, task_vars,
                   storage_vars,
                   policy_vars, controller_vars, history_vars>>

\* the files of a pre-commit map
PreCommitFiles(pre_commit) == {pre_commit[k] : k \in DOMAIN pre_commit}

\* commit(): the pre-commit files of the last checkpoint are sent, in the
\* order the operator holds them
CommitCall ==
    /\ runtime_pc = "running" /\ facade_pc = "idle"
    /\ CommitPending
    /\ Len(receiver) < ChannelCapacity
    /\ \E order \in Orders(DOMAIN Unwrap(saved).pre_commit) :
          receiver' =
              Append(receiver,
                     FilesToFinishMessage(
                         [i \in 1..Len(order) |->
                             Unwrap(saved).pre_commit[order[i]]]))
    /\ facade_pc' = "commit"
    /\ UNCHANGED <<actor_vars, checkpoint_sender, store, runtime_pc, stopping,
                   source_vars, saved, checkpoints, crashes, task_vars,
                   storage_vars,
                   policy_vars, controller_vars, history_vars>>

\* commit() returns on Finished; any other message is an error
CommitReturn ==
    /\ facade_pc = "commit"
    /\ checkpoint_sender # <<>>
    /\ checkpoint_sender' = Tail(checkpoint_sender)
    /\ IF Head(checkpoint_sender).kind = "Finished"
       THEN /\ facade_pc' = "idle"
            /\ saved' = Some([Unwrap(saved) EXCEPT !.committed = TRUE])
            /\ runtime_pc' = IF stopping THEN "stopped" ELSE runtime_pc
            /\ committed_files' =
                   committed_files \cup PreCommitFiles(Unwrap(saved).pre_commit)
            /\ recovered_commit' = IF recovered_commit = "pending"
                                   THEN "done" ELSE recovered_commit
       ELSE /\ facade_pc' = "failed"
            /\ UNCHANGED <<saved, runtime_pc, committed_files,
                           recovered_commit>>
    /\ UNCHANGED <<actor_vars, receiver, store, stopping, source_vars,
                   checkpoints, crashes, task_vars, storage_vars,
                   policy_vars, controller_vars,
                   out_of_order, outstanding, max_opened,
                   recovered_trailing, recoveries>>

\* what a restart does: a fresh actor and sink, the source rewound to the
\* offset of the last completed checkpoint
Restart ==
    /\ crashes' = crashes + 1
    /\ status' = "running"
    /\ pc' = "select"
    /\ then_stop' = FALSE
    /\ current_writer_name' = <<>>
    /\ max_file_index' = 0
    /\ subtask_id' = 0
    /\ writers' = <<>>
    /\ futures' = {}
    /\ files_to_finish' = <<>>
    /\ receiver' = <<>>
    /\ checkpoint_sender' = <<>>
    /\ facade_pc' = "idle"
    /\ runtime_pc' = "start"
    /\ stopping' = FALSE
    /\ position' = IF IsSome(saved) THEN Unwrap(saved).position ELSE 0
    /\ restored' = IF IsSome(saved) THEN <<Unwrap(saved).data_recovery>>
                   ELSE <<>>
    /\ recovered_commit' = IF CommitPending THEN "pending" ELSE recovered_commit
    /\ out_of_order' = {}
    /\ outstanding' = {}
    /\ UNCHANGED <<store, input, saved, checkpoints, task_info, storage_vars,
                   policy_vars, controller_vars,
                   max_opened, committed_files, recovered_trailing,
                   recoveries>>

\* the subtask fails at any point and is restarted
Crash ==
    /\ runtime_pc # "stopped"
    /\ crashes < MaxCrashes
    /\ Restart

Next ==
    \/ SinkInit
    \/ InsertRecord
    \/ CheckpointCall
    \/ CheckpointReturn
    \/ CommitCall
    \/ CommitReturn
    \/ ReceiveInit
    \/ ReceiveData
    \/ ReceiveCheckpoint
    \/ FlushFuture
    \/ FlushDone
    \/ StopFuture
    \/ StopDone
    \/ TakeCheckpoint
    \/ ReceiveFilesToFinish
    \/ FutureCompletes
    \/ Tick

\* the sink without failures
Spec == Init /\ [][Next]_vars

\* the restarted subtask fails again before its next checkpoint, and is
\* restarted from the same saved state
CrashDuringRecovery ==
    /\ runtime_pc # "stopped"
    /\ crashes = MaxCrashes
    /\ Len(recoveries) = 1
    /\ checkpoints = recoveries[1].checkpoints
    /\ Restart

NextRestart == Next \/ Crash

\* the sink with crashes and restarts from the last checkpoint
SpecRestart == Init /\ [][NextRestart]_vars

NextRecoverTwice == NextRestart \/ CrashDuringRecovery

\* the same, with a second crash while recovering
SpecRecoverTwice == Init /\ [][NextRecoverTwice]_vars

(***************************************************************************)
(* What the object store holds, as a reader of the destination sees it.    *)
(***************************************************************************)
\* the digit a character stands for
DigitOf(c) == CHOOSE d \in 0..9 : DigitChar(d) = c

RECURSIVE ParseNat(_)
ParseNat(text) ==
    IF text = <<>> THEN 0
    ELSE 10 * ParseNat(SubSeq(text, 1, Len(text) - 1))
         + DigitOf(text[Len(text)])

\* the file index written in a file name
FileIndexOf(path) ==
    ParseNat(SubSeq(path, Len(BasePath) + 2, Len(BasePath) + 6))

\* the close_multipart calls the store has accepted
FinalizedCalls == BagToSet(store.completed)

\* the bytes of a finalized file: its parts in the order of the call
Contents(call) == Concat([i \in 1..Len(call.parts) |-> call.parts[i].etag])

RECURSIVE InIndexOrder(_)
\* the contents of finalized files, concatenated in file-index order
InIndexOrder(calls) ==
    IF calls = {} THEN <<>>
    ELSE LET first == CHOOSE c \in calls :
                 \A d \in calls : FileIndexOf(c.path) <= FileIndexOf(d.path)
         IN  Contents(first) \o InIndexOrder(calls \ {first})

FinalizedBytes == InIndexOrder(FinalizedCalls)

\* the records the sink has taken from the source
Consumed == SubSeq(input, 1, position)

(***************************************************************************)
(* C1  No lost bytes: once the sink has stopped gracefully, whatever the   *)
(* ticks, callbacks, checkpoints, commits and restarts before, the parts   *)
(* of the finalized files concatenated in file-index order are exactly the *)
(* serialization of the input records in input order.  The code loses      *)
(* bytes over a restart: from_checkpoint returns a file without parts for  *)
(* a file whose multipart upload was not yet created at the checkpoint.    *)
(***************************************************************************)
NoLostBytes ==
    runtime_pc = "stopped" => FinalizedBytes = Serialize(Consumed)

\* the close_multipart call that finishing a file makes, if it makes one
ExpectedCalls(files) ==
    {[path |-> f.filename, multipart_id |-> f.multi_part_upload_id,
      parts |-> f.completed_parts] :
        f \in {g \in files : Len(g.completed_parts) > 0}}

\* what the commits completed so far finalize in a run without a crash
CommittedCalls == ExpectedCalls(committed_files)

\* what the commit still owed for the last checkpoint finalizes
PendingCalls ==
    IF CommitPending
    THEN ExpectedCalls(PreCommitFiles(Unwrap(saved).pre_commit))
    ELSE {}

(***************************************************************************)
(* C2  Stability under restart: wherever the subtask crashes between a     *)
(* completed checkpoint() and the end of the following commit(), the fresh *)
(* actor initialised with the saved recovery data and committing the saved *)
(* pre-commit set leaves the store with the files, and the part contents,  *)
(* that the commits finalize when no crash happens: the files of every     *)
(* completed commit, and nothing but files of the commit still owed.       *)
(***************************************************************************)
StableUnderRestart ==
    /\ CommittedCalls \subseteq FinalizedCalls
    /\ FinalizedCalls \subseteq CommittedCalls \cup PendingCalls

\* the commit owed at the crash has been made by the restarted sink, and it
\* is the only commit so far and has finalized a file
StableUnderRestartWitness ==
    /\ recovered_commit = "done"
    /\ checkpoints = 1
    /\ ~CommitPending
    /\ FinalizedCalls # {}

RECURSIVE Lines(_, _)
\* the newline-terminated lines of a byte string; current is the line begun
Lines(bytes, current) ==
    IF bytes = <<>>
    THEN IF current = <<>> THEN <<>> ELSE <<current>>
    ELSE IF Head(bytes) = "\n"
         THEN <<current>> \o Lines(Tail(bytes), <<>>)
         ELSE Lines(Tail(bytes), Append(current, Head(bytes)))

\* the encoded records found in the finalized files
FinalizedLines == Lines(FinalizedBytes, <<>>)

(***************************************************************************)
(* C3  No duplicated bytes: at every point of every run, with rolls,       *)
(* checkpoints, commits and restarts, each encoded input record is in at   *)
(* most one place of one finalized file, and the finalized files hold      *)
(* nothing but encoded input records.  (The records of an input differ     *)
(* from position to position, so a byte range found twice is a line found  *)
(* twice.)                                                                 *)
(***************************************************************************)
NoDuplicatedBytes ==
    /\ \A i, j \in 1..Len(FinalizedLines) :
          i # j => FinalizedLines[i] # FinalizedLines[j]
    /\ \A i \in 1..Len(FinalizedLines) :
          \E k \in 1..Len(input) : FinalizedLines[i] = to_vec(input[k])

\* after a restart a file is finalized that was recovered from a checkpoint
\* holding its last record as trailing bytes, after a part already uploaded
NoDuplicatedBytesWitness ==
    /\ crashes = 1
    /\ \E c \in FinalizedCalls :
          c.path \in recovered_trailing /\ Len(c.parts) >= 2

(***************************************************************************)
(* C4  Idempotent recovery: when an actor initialised from the saved       *)
(* recovery data fails before its next checkpoint and a second actor is    *)
(* initialised from the same data, the second Init recovers the same files *)
(* (same names, same ordered part contents) as the first, and the files    *)
(* then committed under those names are the ones the first Init had        *)
(* recovered.                                                              *)
(***************************************************************************)
IdempotentRecovery ==
    \A k \in 1..Len(recoveries) :
        /\ \A l \in 1..Len(recoveries) :
              recoveries[l].message = recoveries[k].message
                  => recoveries[l].files = recoveries[k].files
        /\ \A c \in FinalizedCalls :
              (\E r \in recoveries[k].files : r.filename = c.path)
                  => [filename |-> c.path,
                      contents |-> [i \in 1..Len(c.parts) |->
                                       c.parts[i].etag]]
                         \in recoveries[k].files

\* a file recovered by two Inits from the same recovery data has been
\* committed
IdempotentRecoveryWitness ==
    /\ Len(recoveries) = 2
    /\ recoveries[1].message = recoveries[2].message
    /\ \E c \in FinalizedCalls :
          \E r \in recoveries[1].files : r.filename = c.path

\* the names of the files of the last checkpoint: in progress and pre-commit
CheckpointNames ==
    {f.filename : f \in PreCommitFiles(Unwrap(saved).pre_commit)}
    \cup {Unwrap(saved).data_recovery.active_files[i].filename :
             i \in 1..Len(Unwrap(saved).data_recovery.active_files)}

\* the names of the files the actor holds: open, closing, or to be finished
ActorNames ==
    DOMAIN writers
    \cup {files_to_finish[i].filename : i \in 1..Len(files_to_finish)}

\* checkpoint() returns
CheckpointReturns ==
    facade_pc = "checkpoint" /\ facade_pc' = "idle" /\ crashes' = crashes

\* the actor handles Init
InitHandled ==
    /\ receiver # <<>> /\ Head(receiver).kind = "Init"
    /\ receiver' = Tail(receiver)
    /\ crashes' = crashes

FilesToFinish ==
    {files_to_finish[i] : i \in 1..Len(files_to_finish)}
    \cup {FileToFinish(c.path, c.multipart_id, c.parts) : c \in FinalizedCalls}

\* the content ids of a file are those of parts 0..N-1, in this order
Contiguous(file) ==
    \A i \in 1..Len(file.completed_parts) :
        file.completed_parts[i].part = i - 1

\* the content ids of a file are those of the parts uploaded for it
Complete(file) ==
    {[part_index |-> file.completed_parts[i].part,
      data |-> file.completed_parts[i].etag] :
         i \in 1..Len(file.completed_parts)}
        = store.uploads[file.multi_part_upload_id].parts

(***************************************************************************)
(* C6  Part-index order: every FileToFinish a writer produces, and so      *)
(* every close_multipart call, lists one content id for each part          *)
(* 0..N-1 of the upload, without a gap and in increasing part-index        *)
(* order, in whatever order the CompletedPart callbacks were processed.    *)
(***************************************************************************)
PartIndexOrder ==
    \A file \in FilesToFinish : Contiguous(file) /\ Complete(file)

\* a finalized file of two parts whose second part was acknowledged first
PartIndexOrderWitness ==
    \E c \in FinalizedCalls :
        /\ Len(c.parts) >= 2
        /\ c.path \in out_of_order

(***************************************************************************)
(* C7  Rolling hard ceiling: no file given to close_multipart has more     *)
(* than max_parts parts, the part written at close counted.  The code      *)
(* does not keep it: the part limit is looked at on timer ticks only, and  *)
(* closing a writer adds the bytes still buffered as one more part.        *)
(***************************************************************************)
HardCeiling ==
    \A c \in FinalizedCalls : Len(c.parts) <= MaxParts

(***************************************************************************)
(* C8  Graceful shutdown: from every actor state after Init, a Checkpoint  *)
(* with then_stop closes the current writer and drains every upload, so    *)
(* the actor is still running while stop() drains and goes on to emit      *)
(* Finished.  The code does not do this for a current writer that never    *)
(* received a record: closing it schedules UploadsFinished, and            *)
(* get_finished_file then panics for want of a multipart id.               *)
(***************************************************************************)
GracefulStop ==
    (pc = "stop" /\ then_stop) => status = "running"

\* the actor sends a checkpoint artifact
ArtifactSent ==
    /\ Len(checkpoint_sender') > Len(checkpoint_sender)
    /\ checkpoint_sender'[Len(checkpoint_sender) + 1].kind
           = "InProgressFileCheckpoint"

(***************************************************************************)
(* C9  Drain before artifacts: while the actor handles a Checkpoint        *)
(* message it sends no artifact before every future that was in the pool   *)
(* when the message was taken, and every future their callbacks added,     *)
(* has completed and had its callback processed: the pool is empty when    *)
(* the first artifact is sent.                                             *)
(***************************************************************************)
ArtifactsAfterDrain ==
    /\ [](pc = "take_checkpoint" => futures = {})
    /\ [][ArtifactSent => pc = "take_checkpoint" /\ futures = {}]_vars

\* artifacts are about to be sent for a Checkpoint message that found the
\* start of a multipart upload in the pool, whose callback adds part uploads
ArtifactsAfterDrainWitness ==
    /\ pc = "take_checkpoint"
    /\ \E f \in outstanding : f.kind = "InitializedMultipart"
    /\ DOMAIN writers # {} \/ files_to_finish # <<>>

\* the messages a step adds to the checkpoint channel
Sent == SubSeq(checkpoint_sender', Len(checkpoint_sender) + 1,
               Len(checkpoint_sender'))

\* the actor ends the handling of a Checkpoint message
CheckpointHandled == pc = "take_checkpoint" /\ pc' = "select"

\* the artifact take_checkpoint sends for a writer of the map
WriterArtifact(writer_name) ==
    InProgressFileCheckpoint(writer_name,
                             get_in_progress_checkpoint(writers[writer_name]),
                             currently_buffered_data(writers[writer_name]))

\* the artifact take_checkpoint sends for a pending file to finish
FileArtifact(file) ==
    InProgressFileCheckpoint(
        file.filename,
        MultiPartWriterUploadCompleted(file.multi_part_upload_id,
                                       file.completed_parts),
        <<>>)

(***************************************************************************)
(* C10  Checkpoint emission: for a Checkpoint message the actor sends one  *)
(* InProgressFileCheckpoint for each writer of the writer map, then one    *)
(* MultiPartWriterUploadCompleted artifact for each pending FileToFinish,  *)
(* then one Finished with its max_file_index, which is the last message;   *)
(* and from taking the message to sending Finished it takes no other       *)
(* message and rolls no writer on a tick.                                  *)
(***************************************************************************)
CheckpointEmission ==
    /\ [][CheckpointHandled =>
             LET n == Cardinality(DOMAIN writers)
                 m == Len(files_to_finish)
             IN  /\ Len(Sent) = n + m + 1
                 /\ \A w \in DOMAIN writers :
                       Cardinality({i \in 1..n : Sent[i] = WriterArtifact(w)})
                           = 1
                 /\ \A j \in 1..m :
                       Sent[n + j] = FileArtifact(files_to_finish[j])
                 /\ Sent[n + m + 1] = Finished(max_file_index)
                 /\ \A i \in 1..(n + m) : Sent[i].kind # "Finished"]_vars
    /\ [][pc # "select" =>
             /\ Len(receiver') >= Len(receiver)
             /\ Len(checkpoint_sender') <= Len(checkpoint_sender)
                    \/ CheckpointHandled
             /\ max_file_index' = max_file_index
             /\ current_writer_name' = current_writer_name]_vars

\* a checkpoint has just been emitted for an actor that held a writer and a
\* pending file: an in-progress artifact, a completed one, then Finished
CheckpointEmissionWitness ==
    /\ pc = "select"
    /\ Len(checkpoint_sender) >= 3
    /\ checkpoint_sender[Len(checkpoint_sender)].kind = "Finished"
    /\ \E i, j \in 1..(Len(checkpoint_sender) - 1) :
          /\ i < j
          /\ checkpoint_sender[i].kind = "InProgressFileCheckpoint"
          /\ checkpoint_sender[i].data.tag # "MultiPartWriterUploadCompleted"
          /\ checkpoint_sender[j].kind = "InProgressFileCheckpoint"
          /\ checkpoint_sender[j].data.tag = "MultiPartWriterUploadCompleted"

\* the actor takes a FilesToFinish message
FilesToFinishHandled ==
    /\ receiver # <<>> /\ Head(receiver).kind = "FilesToFinish"
    /\ receiver' = Tail(receiver)
    /\ crashes' = crashes

\* the close_multipart call for a file to finish
CloseCall(file) ==
    [path |-> file.filename, multipart_id |-> file.multi_part_upload_id,
     parts |-> file.completed_parts]

\* the entries of a FilesToFinish list that ask for the call c
Asking(files, c) ==
    {i \in 1..Len(files) :
        Len(files[i].completed_parts) > 0 /\ CloseCall(files[i]) = c}

\* commit() returns
CommitReturns ==
    facade_pc = "commit" /\ facade_pc' # "commit" /\ crashes' = crashes

(***************************************************************************)
(* C11  Commit handling: for a FilesToFinish message the actor calls       *)
(* close_multipart once for each entry with at least one completed part,   *)
(* with the entry's multipart id and its content ids in the given order,   *)
(* makes no call for an entry without parts and does not fail on it, and   *)
(* then sends one Finished and no artifact; commit() then returns Ok.      *)
(***************************************************************************)
CommitHandling ==
    /\ [][FilesToFinishHandled =>
             LET files == Head(receiver).files
             IN  /\ \A i \in 1..Len(files) :
                       Len(files[i].completed_parts) > 0
                           => CloseCall(files[i]) \in BagToSet(store'.completed)
                 /\ \A c \in BagToSet(store'.completed) :
                       CopiesIn(c, store'.completed)
                           = CopiesIn(c, store.completed)
                             + Cardinality(Asking(files, c))
                 /\ store'.uploads = store.uploads
                 /\ Sent = <<Finished(max_file_index)>>
                 /\ status' = "running"]_vars
    /\ [][CommitReturns => facade_pc' = "idle"]_vars

\* a commit has been handled whose list held a file without parts, which was
\* skipped, and a file with parts, which was closed
CommitHandlingWitness ==
    /\ facade_pc = "commit"
    /\ checkpoint_sender # <<>>
    /\ \E f, g \in PreCommitFiles(Unwrap(saved).pre_commit) :
          /\ Len(f.completed_parts) = 0
          /\ \A c \in FinalizedCalls : c.path # f.filename
          /\ Len(g.completed_parts) > 0
          /\ CloseCall(g) \in FinalizedCalls

\* whether an artifact is for a file whose upload is complete
IsCompleted(artifact) == artifact.data.tag = "MultiPartWriterUploadCompleted"

\* whether an artifact is for a file still in progress
IsActive(artifact) == ~IsCompleted(artifact)

\* the artifacts in the checkpoint channel before the first Finished
Collected == SubSeq(checkpoint_sender, 1, FirstFinished(checkpoint_sender) - 1)

\* an artifact as an entry of active_files
ActiveFile(artifact) ==
    [filename |-> artifact.filename, data |-> artifact.data,
     buffered_data |-> artifact.buffered_data]

(***************************************************************************)
(* C12  Checkpoint partition: checkpoint() takes every artifact sent       *)
(* before Finished; each MultiPartWriterUploadCompleted artifact becomes   *)
(* the pre-commit entry under its file name, with the same multipart id    *)
(* and parts; every other artifact is appended to active_files as it is;   *)
(* none is dropped; and next_file_index is the max_file_index of Finished  *)
(* plus one.                                                               *)
(***************************************************************************)
CheckpointPartition ==
    [][CheckpointReturns =>
          LET result == Unwrap(saved')
              active == SelectSeq(Collected, IsActive)
              completed == SelectSeq(Collected, IsCompleted)
          IN  /\ Len(result.data_recovery.active_files) = Len(active)
              /\ \A i \in 1..Len(active) :
                    result.data_recovery.active_files[i]
                        = ActiveFile(active[i])
              /\ DOMAIN result.pre_commit
                    = {completed[i].filename : i \in 1..Len(completed)}
              /\ Cardinality(DOMAIN result.pre_commit) = Len(completed)
              /\ \A i \in 1..Len(completed) :
                    result.pre_commit[completed[i].filename]
                        = FileToFinish(completed[i].filename,
                                       completed[i].data.multi_part_upload_id,
                                       completed[i].data.completed_parts)
              /\ result.data_recovery.next_file_index
                    = checkpoint_sender[FirstFinished(checkpoint_sender)]
                          .max_file_index + 1
              /\ checkpoint_sender'
                    = SubSeq(checkpoint_sender,
                             FirstFinished(checkpoint_sender) + 1,
                             Len(checkpoint_sender))]_vars

\* checkpoint() has returned a file in progress and a file to commit
CheckpointPartitionWitness ==
    /\ facade_pc = "idle"
    /\ CommitPending
    /\ Unwrap(saved).data_recovery.active_files # <<>>
    /\ DOMAIN Unwrap(saved).pre_commit # {}

(***************************************************************************)
(* The start of a subtask of a restarted job.  The operator hands init the *)
(* DataRecovery values of the subtasks of the previous run, of which there *)
(* may have been more or fewer; the store holds the uploads they started.  *)
(***************************************************************************)
\* the upload subtask 0 of the previous run had started, with one part
PriorUpload ==
    [path |-> FileName(0, 0),
     parts |-> {[part_index |-> 0, data |-> Serialize(<<10>>)]}]

\* the file of that upload, in flight at the checkpoint
PriorInFlight ==
    [filename |-> FileName(0, 0),
     data |-> MultiPartInFlight(
                  1, <<FinishedPart(0, ContentId(0, Serialize(<<10>>)))>>,
                  None),
     buffered_data |-> <<>>]

\* the file subtask 1 of the previous run held, without an upload yet
PriorNotCreated ==
    [filename |-> FileName(0, 1),
     data |-> MultiPartNotCreated(<<>>, Some(Serialize(<<1>>))),
     buffered_data |-> <<>>]

\* what checkpoint() of the previous subtask 0, and 1, can have returned
RestoredOfTask0 ==
    {FileSystemDataRecovery(n, files) :
        n \in 1..(MaxNextFileIndex - 1), files \in {<<>>, <<PriorInFlight>>}}
RestoredOfTask1 ==
    {FileSystemDataRecovery(n, files) :
        n \in 1..MaxNextFileIndex, files \in {<<>>, <<PriorNotCreated>>}}

\* the lists of DataRecovery values init can be given, in any order
RestoredLists ==
    {<<>>}
    \cup {<<r>> : r \in RestoredOfTask0 \cup RestoredOfTask1}
    \cup {<<r0, r1>> : r0 \in RestoredOfTask0, r1 \in RestoredOfTask1}
    \cup {<<r1, r0>> : r0 \in RestoredOfTask0, r1 \in RestoredOfTask1}

InitRestored ==
    /\ SinkAlone
    /\ ActorNew
    /\ receiver = <<>>
    /\ checkpoint_sender = <<>>
    /\ store = [uploads |-> <<PriorUpload>>, completed |-> EmptyBag]
    /\ facade_pc = "idle"
    /\ runtime_pc = "start"
    /\ stopping = FALSE
    /\ input = <<>>
    /\ position = 0
    /\ saved = None
    /\ checkpoints = 0
    /\ crashes = 1
    /\ task_info \in {[task_index |-> i] : i \in 0..MaxTaskIndex}
    /\ restored \in RestoredLists
    /\ out_of_order = {}
    /\ outstanding = {}
    /\ max_opened = -1
    /\ committed_files = {}
    /\ recovered_commit = "no"
    /\ recovered_trailing = {}
    /\ recoveries = <<>>

\* a subtask of a restarted job up to the handling of its Init
SpecInit == InitRestored /\ [][SinkInit \/ ReceiveInit]_vars

\* init() is called
InitCalled == runtime_pc = "start" /\ runtime_pc' = "running"

\* the greatest element of a non-empty set of numbers
Greatest(S) == CHOOSE m \in S : \A x \in S : x <= m

\* all active files of the restored DataRecovery values, in order
AllActiveFiles == Concat([i \in 1..Len(restored) |-> restored[i].active_files])

(***************************************************************************)
(* C13  Init fan-in: init() sends one Init message; its max_file_index is  *)
(* the greatest next_file_index of the DataRecovery values given, 0 when   *)
(* there is none; its recovered_files is the concatenation of their        *)
(* active_files for task index 0 and empty for any other task index.  So   *)
(* subtask 0 resumes every recovered active file and another subtask       *)
(* resumes none and makes no store call.                                   *)
(***************************************************************************)
InitFanIn ==
    /\ [][InitCalled =>
             /\ Len(receiver') = Len(receiver) + 1
             /\ receiver'[Len(receiver')]
                   = InitMessage(
                         Greatest({0} \cup {restored[i].next_file_index :
                                               i \in 1..Len(restored)}),
                         task_info.task_index,
                         IF task_info.task_index = 0
                         THEN AllActiveFiles ELSE <<>>)]_vars
    /\ [][InitHandled =>
             IF task_info.task_index = 0
             THEN \A i \in 1..Len(AllActiveFiles) :
                     \E j \in 1..Len(files_to_finish') :
                        files_to_finish'[j].filename
                            = AllActiveFiles[i].filename
             ELSE store' = store /\ files_to_finish' = <<>>]_vars

\* subtask 0 has handled the Init made from two DataRecovery values, the
\* first with the greater next_file_index, and resumed the file of each
InitFanInWitness ==
    /\ task_info.task_index = 0
    /\ runtime_pc = "running" /\ receiver = <<>>
    /\ Len(restored) = 2
    /\ restored[1].next_file_index > restored[2].next_file_index
    /\ max_file_index = restored[1].next_file_index
    /\ Len(files_to_finish) = 2

\* the names of the files pending in files_to_finish
PendingNames == {files_to_finish[i].filename : i \in 1..Len(files_to_finish)}

\* the file indices and task indices within the bounds of the model
FileIndices == 0..(MaxNextFileIndex + MaxRecords)
TaskIndices == 0..MaxTaskIndex

(***************************************************************************)
(* C14  FileHandle uniqueness: no two live writers have the same file      *)
(* path.  A writer is kept under its own path, which is the file name of   *)
(* an index and of the task index of its subtask and of no other index or  *)
(* task index, so writers of two subtasks differ, as the task indices do;  *)
(* and a writer created by a roll or by an Init never takes the            *)
(* name of a file pending in files_to_finish and never replaces a writer   *)
(* still in the map.                                                       *)
(***************************************************************************)
FileHandleUniqueness ==
    /\ [](\A w \in DOMAIN writers :
             /\ name(writers[w]) = w
             /\ w = FileName(FileIndexOf(w), task_info.task_index))
    /\ [](\A w \in DOMAIN writers :
             \A i \in FileIndices : \A t \in TaskIndices :
                w = FileName(i, t)
                    => i = FileIndexOf(w) /\ t = task_info.task_index)
    /\ [][crashes' = crashes =>
             \A w \in DOMAIN writers' :
                /\ w \notin DOMAIN writers
                      => w \notin PendingNames /\ w \notin PendingNames'
                /\ (w \in DOMAIN writers /\ writers'[w] # writers[w])
                      => writers'[w] # BatchMultipartWriter_new(w)]_vars

\* a restarted actor holds a recovered file to finish, a writer closed by a
\* roll and the writer the roll opened
FileHandleUniquenessWitness ==
    /\ Len(recoveries) = 1
    /\ \E r \in recoveries[1].files : r.filename \in PendingNames
    /\ Cardinality(DOMAIN writers) >= 2

\* the bytes of a slot of pushed_parts: buffered, or as uploaded
SlotBytes(slot) ==
    IF slot.tag = "UploadPart" THEN slot.content_id.etag ELSE slot.data

\* the byte blocks a writer was handed so far, in the order of its slots and
\* of its queue, and the bytes its encoder still holds
HandedBytes(w) ==
    Concat([i \in 1..Len(w.multipart_manager.pushed_parts) |->
               SlotBytes(w.multipart_manager.pushed_parts[i])])
    \o Concat(QueuedBytes(w.multipart_manager))
    \o w.batch_buffering_writer.current_buffer

\* the encodings of the runs of consecutive input records
InputRuns ==
    {Serialize(SubSeq(input, a, b)) :
        a \in 1..(Len(input) + 1), b \in 0..Len(input)}

\* the part upload futures of a writer for a part index
PartFutures(writer_name, index) ==
    {f \in futures : /\ f.kind = "CompletedPart"
                     /\ f.name = writer_name
                     /\ f.part_index = index}

\* the parts the store holds for a writer's upload under a part index
StoredParts(mm, index) ==
    {p \in store.uploads[Unwrap(mm.multipart_id)].parts :
        p.part_index = index}

(***************************************************************************)
(* C15  Part-index assignment: the parts of a writer are numbered          *)
(* 0, 1, 2, ... in the order their byte blocks were handed to              *)
(* write_next_part, the parts queued in parts_to_add before the multipart  *)
(* id arrived and the parts written after it alike.  The index of a part   *)
(* is its position in pushed_parts (or in the queue); for each slot one    *)
(* add_multipart call is made with that index and the bytes of the slot,   *)
(* pending while the slot is buffered and done once it holds the content   *)
(* id; and the store holds no two parts of an upload under one index.      *)
(***************************************************************************)
PartIndexAssignment ==
    /\ \A w \in DOMAIN writers :
          LET mm == writers[w].multipart_manager
          IN  /\ \A i \in 1..Len(mm.parts_to_add) :
                    mm.parts_to_add[i].part_index = i - 1
              /\ mm.parts_to_add # <<>>
                    => ~IsSome(mm.multipart_id) /\ mm.pushed_parts = <<>>
              /\ mm.pushed_parts # <<>> => IsSome(mm.multipart_id)
              /\ \A i \in 1..Len(mm.pushed_parts) :
                    IF mm.pushed_parts[i].tag = "BufferedData"
                    THEN /\ PartFutures(w, i - 1)
                               = {PartUploadFuture(
                                      w, Unwrap(mm.multipart_id),
                                      [part_index |-> i - 1,
                                       byte_data |-> mm.pushed_parts[i].data])}
                         /\ StoredParts(mm, i - 1) = {}
                    ELSE /\ PartFutures(w, i - 1) = {}
                         /\ mm.pushed_parts[i].content_id.part = i - 1
                         /\ StoredParts(mm, i - 1)
                               = {[part_index |-> i - 1,
                                   data |-> SlotBytes(mm.pushed_parts[i])]}
              /\ \A f \in futures :
                    f.kind = "CompletedPart" /\ f.name = w
                        => f.part_index < Len(mm.pushed_parts)
              /\ IsSome(mm.multipart_id) =>
                    \A p \in store.uploads[Unwrap(mm.multipart_id)].parts :
                       p.part_index < Len(mm.pushed_parts)
              /\ HandedBytes(writers[w]) \in InputRuns
    /\ \A k \in 1..Len(store.uploads) :
          \A p, q \in store.uploads[k].parts :
             p.part_index = q.part_index => p = q

\* a writer has two parts; the upload of the second is acknowledged and the
\* upload of the first is still pending
PartIndexAssignmentWitness ==
    \E w \in DOMAIN writers :
        LET mm == writers[w].multipart_manager
        IN  /\ Len(mm.pushed_parts) = 2
            /\ mm.pushed_parts[1].tag = "BufferedData"
            /\ mm.pushed_parts[2].tag = "UploadPart"

(***************************************************************************)
(* Scheduling.  select! takes one of its ready arms at random, the loops   *)
(* of flush_futures and stop await the pool, and the facade awaits the     *)
(* checkpoint channel: a step of the actor, or a return of the facade,     *)
(* that stays possible is eventually taken.  Store calls always succeed.   *)
(***************************************************************************)
ActorStep ==
    \/ ReceiveInit
    \/ ReceiveData
    \/ ReceiveCheckpoint
    \/ FlushFuture
    \/ FlushDone
    \/ StopFuture
    \/ StopDone
    \/ TakeCheckpoint
    \/ ReceiveFilesToFinish
    \/ FutureCompletes

FacadeReceives ==
    \/ CheckpointReturn
    \/ CommitReturn

\* the sink without failures, under this scheduling
SpecLive ==
    /\ Init
    /\ [][Next]_vars
    /\ WF_vars(ActorStep)
    /\ WF_vars(FacadeReceives)

(***************************************************************************)
(* C16  Every Checkpoint message an initialised actor receives is          *)
(* eventually answered by Finished, the uploads scheduled before being     *)
(* awaited to completion, when every store call succeeds and the facade    *)
(* keeps receiving.  The code does not do this: the actor can stop while   *)
(* it handles the message (see C8), and then sends no Finished and drops   *)
(* what is left in its pool.                                               *)
(***************************************************************************)
CheckpointAnswered ==
    (pc = "flush_futures") ~> (pc = "select")

(***************************************************************************)
(* commit() takes the list of files from its caller.  Here the caller can  *)
(* also hand it a file that has uploaded parts and is still being written. *)
(***************************************************************************)
IsUploaded(slot) == slot.tag = "UploadPart"

\* a writer of the map as a file to finish: its upload and the parts
\* uploaded so far
LiveFile(writer_name) ==
    LET mm == writers[writer_name].multipart_manager
        uploaded == SelectSeq(mm.pushed_parts, IsUploaded)
    IN  FileToFinish(writer_name, Unwrap(mm.multipart_id),
                     [i \in 1..Len(uploaded) |-> uploaded[i].content_id])

\* commit() is called with a file that is still in the writer map
CommitLiveFile ==
    /\ runtime_pc = "running" /\ facade_pc = "idle"
    /\ IsSome(saved) /\ ~CommitPending
    /\ Len(receiver) < ChannelCapacity
    /\ \E w \in DOMAIN writers :
          /\ IsSome(writers[w].multipart_manager.multipart_id)
          /\ LiveFile(w).completed_parts # <<>>
          /\ \A c \in BagToSet(store.completed) : c.path # w
          /\ receiver' = Append(receiver, FilesToFinishMessage(<<LiveFile(w)>>))
    /\ facade_pc' = "commit"
    /\ UNCHANGED <<actor_vars, checkpoint_sender, store, runtime_pc, stopping,
                   source_vars, saved, checkpoints, crashes, task_vars,
                   storage_vars,
                   policy_vars, controller_vars, history_vars>>

\* the sink whose caller commits files of its own choice
SpecCommitAny == Init /\ [][Next \/ CommitLiveFile]_vars

(***************************************************************************)
(* C17  A FilesToFinish message that names a file still present as a       *)
(* writer in the writer map is rejected with an error, and close_multipart *)
(* is not called for that file.  The code has no such check: finish_file   *)
(* closes the upload of any entry that has parts.                          *)
(***************************************************************************)
RejectsLiveFile ==
    [][FilesToFinishHandled =>
          \A i \in 1..Len(Head(receiver).files) :
             Head(receiver).files[i].filename \in DOMAIN writers
                 => /\ status' = "failed"
                    /\ \A c \in BagToSet(store'.completed) :
                          c.path # Head(receiver).files[i].filename]_vars

(***************************************************************************)
(* insert_record() called out of turn: before init(), or after the         *)
(* checkpoint that stops the sink.                                         *)
(***************************************************************************)
InsertRecordOutOfTurn ==
    /\ runtime_pc = "start" \/ (runtime_pc = "running" /\ stopping)
    /\ facade_pc = "idle"
    /\ position < MaxRecords
    /\ Len(receiver) < ChannelCapacity
    /\ \E value \in RecordValues(position + 1) :
          /\ input' = Append(input, value)
          /\ receiver' = Append(receiver, DataMessage(value))
    /\ position' = position + 1
    /\ UNCHANGED <<actor_vars, checkpoint_sender, store, facade_pc,
                   runtime_pc, stopping, saved, checkpoints, crashes,
                   task_vars, storage_vars,
                   policy_vars, controller_vars, history_vars>>

\* the sink whose caller inserts records out of turn
SpecMisuse == Init /\ [][Next \/ InsertRecordOutOfTurn]_vars

\* the actor takes a Data message
DataHandled ==
    /\ receiver # <<>> /\ Head(receiver).kind = "Data"
    /\ receiver' = Tail(receiver)
    /\ crashes' = crashes

(***************************************************************************)
(* C18  A precondition violation is fatal.  A Data message handled when    *)
(* there is no current writer (before any Init, or after a then_stop       *)
(* checkpoint removed it) ends run() with an error: no record is inserted  *)
(* and no store call or future is issued.  So does a callback that names a *)
(* writer which is not in the writer map: nothing is done for it.  After   *)
(* the error the actor takes no further step.                              *)
(***************************************************************************)
FatalPrecondition ==
    /\ [][(DataHandled /\ current_writer_name \notin DOMAIN writers) =>
             /\ status' = "failed"
             /\ UNCHANGED <<writers, futures, files_to_finish, store,
                            checkpoint_sender>>]_vars
    /\ [][\A f \in futures :
             (f \notin futures' /\ crashes' = crashes
                  /\ f.name \notin DOMAIN writers) =>
                /\ status' = "failed"
                /\ futures' = futures \ {f}
                /\ UNCHANGED <<writers, files_to_finish, store,
                               checkpoint_sender>>]_vars
    /\ [][(status # "running" /\ crashes' = crashes) =>
             UNCHANGED <<actor_vars, store, checkpoint_sender>>]_vars

\* run() has ended on the Data message sent before init()
FatalPreconditionWitness ==
    /\ status = "failed"
    /\ runtime_pc = "start"
    /\ position = 1 /\ receiver = <<>>
    /\ current_writer_name \notin DOMAIN writers

(***************************************************************************)
(* Store calls that fail.  A failed call leaves the store as it was.       *)
(***************************************************************************)
\* start_multipart or add_multipart fails inside an upload future: the
\* future's error is taken by result? in the futures arm, or by try_next()?
\* in flush_futures, or by result? in stop
FutureFails ==
    /\ Running
    /\ pc \in {"select", "flush_futures", "stop"}
    /\ \E f \in futures :
          /\ f.kind \in {"InitializedMultipart", "CompletedPart"}
          /\ futures' = futures \ {f}
    /\ status' = "failed"
    /\ UNCHANGED <<pc, then_stop, index_vars, writers, files_to_finish,
                   channel_vars, store, runtime_vars, history_vars>>

\* whether from_checkpoint calls the store for a recovered file
RecoveryCallsStore(data) ==
    CASE data.tag = "MultiPartNotCreated" -> TRUE
      [] data.tag = "MultiPartInFlight" ->
            \/ IsSome(data.trailing_bytes)
            \/ \E i \in 1..Len(data.in_flight_parts) :
                  data.in_flight_parts[i].tag = "InProgressPart"
      [] data.tag = "MultiPartWriterClosed" ->
            \E i \in 1..Len(data.in_flight_parts) :
               data.in_flight_parts[i].tag = "InProgressPart"
      [] OTHER -> FALSE

\* how run() ends when the first store call for a recovered file fails:
\* start_multipart is followed by expect and the add_multipart of a part in
\* progress by unwrap; the add_multipart of the trailing bytes by ?
first_call_failure(data) ==
    IF data.tag = "MultiPartInFlight"
       /\ \A i \in 1..Len(data.in_flight_parts) :
             data.in_flight_parts[i].tag = "FinishedPart"
    THEN "failed"
    ELSE "panicked"

\* Init: the first store call made for the k-th recovered file fails, the
\* files before it having been recovered
ReceiveInitFails ==
    /\ Selecting
    /\ receiver # <<>> /\ Head(receiver).kind = "Init"
    /\ receiver' = Tail(receiver)
    /\ LET msg == Head(receiver)
           closing == IF current_writer_name \in DOMAIN writers
                      THEN close(writers[current_writer_name])
                      ELSE [w |-> None, futures |-> {}]
           closed_ws == IF current_writer_name \in DOMAIN writers
                        THEN [writers EXCEPT ![current_writer_name] = closing.w]
                        ELSE writers
           fresh == new_writer(msg.max_file_index, msg.subtask_id)
       IN  \E k \in 1..Len(msg.recovered_files) :
              LET rec == recover_files(
                             [store |-> store, writer |-> fresh,
                              futures |-> {}, files |-> files_to_finish],
                             SubSeq(msg.recovered_files, 1, k - 1))
              IN  /\ RecoveryCallsStore(msg.recovered_files[k].data)
                  /\ status' = first_call_failure(msg.recovered_files[k].data)
                  /\ max_file_index' = msg.max_file_index
                  /\ subtask_id' = msg.subtask_id
                  /\ current_writer_name' = name(fresh)
                  /\ writers' = Insert(closed_ws, name(fresh), rec.writer)
                  /\ futures' = futures \cup closing.futures \cup rec.futures
                  /\ files_to_finish' = rec.files
                  /\ store' = rec.store
                  /\ max_opened' = Max(max_opened, msg.max_file_index)
    /\ UNCHANGED <<pc, then_stop, checkpoint_sender, runtime_vars,
                   out_of_order, outstanding, committed_files,
                   recovered_commit, recovered_trailing, recoveries>>

\* FilesToFinish: close_multipart fails for the k-th file, the files before
\* it having been finished; the call is followed by unwrap
ReceiveFilesToFinishFails ==
    /\ Selecting
    /\ receiver # <<>> /\ Head(receiver).kind = "FilesToFinish"
    /\ receiver' = Tail(receiver)
    /\ \E k \in 1..Len(Head(receiver).files) :
          /\ Len(Head(receiver).files[k].completed_parts) > 0
          /\ store' = finish_files(store,
                                   SubSeq(Head(receiver).files, 1, k - 1))
    /\ status' = "panicked"
    /\ UNCHANGED <<pc, then_stop, index_vars, writer_vars, checkpoint_sender,
                   runtime_vars, history_vars>>

\* a store call fails
StoreCallFails ==
    \/ FutureFails
    \/ ReceiveInitFails
    \/ ReceiveFilesToFinishFails

\* the sink with restarts, over a store whose calls can fail
SpecStoreFails == Init /\ [][NextRestart \/ StoreCallFails]_vars

(***************************************************************************)
(* C19  When a store call fails (start_multipart or add_multipart in an    *)
(* upload future, a store call of the recovery in Init, close_multipart    *)
(* in commit), run() returns the error as an error value, and the actor    *)
(* neither repeats the call nor makes another store call.  The code ends   *)
(* run() in every case and makes no further call, but not always with an   *)
(* error value: close_multipart().await.unwrap() in finish_file and the    *)
(* expect and unwrap in from_checkpoint panic.                             *)
(***************************************************************************)
StoreErrorReturned ==
    /\ [][StoreCallFails => status' = "failed"]_vars
    /\ [][(status # "running" /\ crashes' = crashes) =>
             UNCHANGED <<actor_vars, store>>]_vars

(***************************************************************************)
(* C20: a FileToFinish is built only from a manager that has a multipart   *)
(* id, no part waiting in parts_to_add and an uploaded part in every slot. *)
(***************************************************************************)
\* the manager from which the callback of future f builds a FileToFinish:
\* the writer's manager when get_finished_file is called (UploadsFinished),
\* the manager after the slot is filled when handle_completed_part finds
\* all_uploads_finished; None when the callback builds no file
manager_to_finish(f) ==
    IF f.name \notin DOMAIN writers
    THEN None
    ELSE LET mm == writers[f.name].multipart_manager
         IN  CASE f.kind = "UploadsFinished" -> Some(mm)
               [] f.kind = "CompletedPart" ->
                      LET r == handle_completed_part(
                                   mm, f.part_index,
                                   run_future(store, f).callback.upload_part)
                      IN  IF f.part_index < Len(mm.pushed_parts)
                             /\ all_uploads_finished(r.mm)
                          THEN Some(r.mm) ELSE None
               [] OTHER -> None

\* C20: whenever the callback of a completing future builds a FileToFinish
\* (handle_completed_part with all uploads finished, or get_finished_file
\* for UploadsFinished), the writer's manager has a multipart id, no part
\* waiting in parts_to_add, and every slot of pushed_parts is uploaded.
FileToFinishFromUploadedParts ==
    [][\A f \in futures :
          (complete_future(f) /\ IsSome(manager_to_finish(f))) =>
              LET mm == Unwrap(manager_to_finish(f))
              IN  /\ IsSome(mm.multipart_id)
                  /\ mm.parts_to_add = <<>>
                  /\ AllUploaded(mm)]_vars

(***************************************************************************)
(* StorageProvider (arroyo-storage/src/lib.rs): the configuration parsed   *)
(* from an S3 URL and the environment, and deletion from the object store. *)
(***************************************************************************)
\* a last that takes the first value present
first_present(opts) ==
    IF \E i \in 1..Len(opts) : IsSome(opts[i])
    THEN opts[CHOOSE i \in 1..Len(opts) :
                 IsSome(opts[i]) /\ \A j \in 1..(i - 1) : ~IsSome(opts[j])]
    ELSE None

\* opts.into_iter().flatten().last(): the last value present, if any
last(opts) ==
    IF \E i \in 1..Len(opts) : IsSome(opts[i])
    THEN opts[CHOOSE i \in 1..Len(opts) :
                 IsSome(opts[i])
                 /\ \A j \in (i + 1)..Len(opts) : ~IsSome(opts[j])]
    ELSE None

\* u16::from_str of the digits the port group captured
u16_from_str(text) ==
    IF ParseNat(text) <= 65535 THEN Some(ParseNat(text)) ELSE None

\* the endpoint group of the URL as parse_s3 formats it:
\* format!("{}://{}:{}", protocol, endpoint, port); None when the URL has no
\* endpoint group, failed when the port is not a u16
url_endpoint(matches) ==
    LET port == IF IsSome(matches.port)
                THEN u16_from_str(Unwrap(matches.port)) ELSE Some(443)
        protocol == IF IsSome(matches.protocol)
                    THEN Unwrap(matches.protocol)
                    ELSE <<"h", "t", "t", "p", "s">>
    IN  IF ~IsSome(matches.endpoint)
        THEN [failed |-> FALSE, value |-> None]
        ELSE IF ~IsSome(port)
        THEN [failed |-> TRUE, value |-> None]
        ELSE [failed |-> FALSE,
              value |-> Some(protocol \o <<":", "/", "/">>
                             \o Unwrap(matches.endpoint) \o <<":">>
                             \o Digits(Unwrap(port)))]

\* BackendConfig::parse_s3; result: Ok(BackendConfig::S3(..)) or
\* Err(StorageError::PathError)
parse_s3(matches, environment) ==
    LET region == last(<<environment["AWS_DEFAULT_REGION"],
                         environment["S3_REGION_ENV"],
                         matches.region>>)
        from_url == url_endpoint(matches)
    IN  IF from_url.failed
        THEN [tag |-> "Err", error |-> "PathError"]
        ELSE [tag |-> "Ok",
              endpoint |-> last(<<environment["AWS_ENDPOINT"],
                                  environment["S3_ENDPOINT_ENV"],
                                  from_url.value>>),
              region |-> region,
              bucket |-> matches.bucket,
              key |-> matches.key]

\* the groups the patterns S3_PATH / S3_VIRTUAL (a region), S3_URL (neither)
\* and S3_ENDPOINT_URL (protocol, endpoint and port) capture
S3Captures ==
    {[region |-> Some(<<"u", "s", "-", "w", "e", "s", "t", "-", "2">>),
      endpoint |-> None, port |-> None, protocol |-> None, bucket |-> "my-bucket", key |-> k] :
        k \in {None, Some("puppy.jpg")}}
    \cup
    {[region |-> None, endpoint |-> None, port |-> None, protocol |-> None,
      bucket |-> "my-bucket", key |-> k] : k \in {None, Some("puppy.jpg")}}
    \cup
    {[region |-> None, endpoint |-> Some(<<"m", "i", "n", "i", "o">>),
      port |-> Some(p), protocol |-> Some(pr), bucket |-> "my-bucket",
      key |-> Some("puppy.jpg")] :
        p \in {<<"8", "0">>, <<"0", "4", "4", "3">>,
               <<"6", "5", "5", "3", "6">>},
        pr \in {<<"h", "t", "t", "p">>, <<"h", "t", "t", "p", "s">>}}

\* the values the environment can give each variable
EnvValues(variable) ==
    CASE variable = "AWS_DEFAULT_REGION" ->
             {<<"u", "s", "-", "e", "a", "s", "t", "-", "1">>,
              <<"u", "s", "-", "w", "e", "s", "t", "-", "2">>}
      [] variable = "S3_REGION_ENV" ->
             {<<"e", "u", "-", "w", "e", "s", "t", "-", "1">>}
      [] variable = "AWS_ENDPOINT" ->
             {<<"h", "t", "t", "p", ":", "/", "/", "a", "w", "s">>}
      [] variable = "S3_ENDPOINT_ENV" ->
             {<<"h", "t", "t", "p", ":", "/", "/", "s", "3">>}

\* the paths of the object store
Paths == {"my-test/1", "my-test/2"}

\* ObjectStore::delete: the outcomes the store can answer with. A store
\* answers a missing object with NotFound (local file system) or with Ok
\* (S3); any call can fail with another error, which deletes nothing.
object_store_delete(objs, path) ==
    {[objects |-> objs, result |-> "Generic"]}
    \cup (IF path \in objs
          THEN {[objects |-> objs \ {path}, result |-> "Ok"]}
          ELSE {[objects |-> objs, result |-> "NotFound"],
                [objects |-> objs, result |-> "Ok"]})

\* a delete_if_present that returns every error of the store
delete_if_present_strict(result) ==
    IF result = "Ok" THEN "Ok" ELSE "Err"

\* StorageProvider::delete_if_present, given what ObjectStore::delete answered
delete_if_present(result) ==
    CASE result = "Ok" -> "Ok"
      [] result = "NotFound" -> "Ok"
      [] OTHER -> "Err"

\* a process with its environment and an S3 URL that matched, before
\* parse_s3 is called; the sink is as constructed and takes no step
InitStorage ==
    /\ from_config /\ NoPolicy /\ NoCheckpoint
    /\ env \in {e \in [EnvNames -> {None} \cup
                          UNION {{Some(v) : v \in EnvValues(n)} :
                                    n \in EnvNames}] :
                   \A n \in EnvNames :
                      IsSome(e[n]) => Unwrap(e[n]) \in EnvValues(n)}
    /\ captures \in {Some(c) : c \in S3Captures}
    /\ config = None
    /\ objects = {}
    /\ deleted = <<>>

\* BackendConfig::parse_url reaching parse_s3
ParseUrl ==
    /\ IsSome(captures) /\ config = None
    /\ config' = Some(parse_s3(Unwrap(captures), env))
    /\ UNCHANGED <<env, captures, objects, deleted>>
    /\ UNCHANGED <<actor_vars, channel_vars, store, facade_pc, runtime_pc,
                   stopping, source_vars, saved, checkpoints, crashes,
                   task_vars, policy_vars, controller_vars,
                   history_vars>>

\* StorageProvider::put
Put ==
    /\ \E path \in Paths : objects' = objects \cup {path}
    /\ UNCHANGED <<env, captures, config, deleted>>
    /\ UNCHANGED <<actor_vars, channel_vars, store, facade_pc, runtime_pc,
                   stopping, source_vars, saved, checkpoints, crashes,
                   task_vars, policy_vars, controller_vars,
                   history_vars>>

\* a call of StorageProvider::delete_if_present
DeleteIfPresent ==
    /\ Len(deleted) < MaxDeletes
    /\ \E path \in Paths :
          \E answer \in object_store_delete(objects, path) :
             /\ objects' = answer.objects
             /\ deleted' = Append(deleted,
                                  [path |-> path,
                                   present |-> path \in objects,
                                   answer |-> answer.result,
                                   result |-> delete_if_present(answer.result)])
    /\ UNCHANGED <<env, captures, config>>
    /\ UNCHANGED <<actor_vars, channel_vars, store, facade_pc, runtime_pc,
                   stopping, source_vars, saved, checkpoints, crashes,
                   task_vars, policy_vars, controller_vars,
                   history_vars>>

\* a StorageProvider for an S3 URL and the calls made on it
SpecStorage == InitStorage /\ [][ParseUrl \/ Put \/ DeleteIfPresent]_vars

(***************************************************************************)
(* C21: the source parse_s3 takes the region and the endpoint from.        *)
(***************************************************************************)
\* parse_s3 was called and returned a configuration
Parsed == IsSome(config) /\ Unwrap(config).tag = "Ok"

\* the value chosen among three optional sources when the first has the
\* highest precedence and the third the lowest
Preferring(first, second, third) ==
    IF IsSome(first) THEN first ELSE IF IsSome(second) THEN second ELSE third

\* the endpoint the URL embeds, as scheme://host:port
EmbeddedEndpoint == url_endpoint(Unwrap(captures)).value

\* C21 as stated: the region of the configuration is AWS_DEFAULT_REGION when
\* that is set, otherwise S3_REGION_ENV, otherwise the region of the URL,
\* otherwise none; the endpoint is AWS_ENDPOINT when set, otherwise
\* S3_ENDPOINT_ENV, otherwise the endpoint of the URL, otherwise none.
EnvironmentOverridesUrl ==
    Parsed =>
        /\ Unwrap(config).region =
               Preferring(env["AWS_DEFAULT_REGION"], env["S3_REGION_ENV"],
                          Unwrap(captures).region)
        /\ Unwrap(config).endpoint =
               Preferring(env["AWS_ENDPOINT"], env["S3_ENDPOINT_ENV"],
                          EmbeddedEndpoint)

\* C21 amended: the precedence is the reverse. The region of the
\* configuration is the region of the URL when it has one, otherwise
\* S3_REGION_ENV, otherwise AWS_DEFAULT_REGION, otherwise none; the endpoint
\* is the endpoint of the URL (as scheme://host:port) when it has one,
\* otherwise S3_ENDPOINT_ENV, otherwise AWS_ENDPOINT, otherwise none; and
\* parse_s3 returns a configuration unless the URL's port is not a u16.
UrlOverridesEnvironment ==
    /\ Parsed =>
          /\ Unwrap(config).region =
                 Preferring(Unwrap(captures).region, env["S3_REGION_ENV"],
                            env["AWS_DEFAULT_REGION"])
          /\ Unwrap(config).endpoint =
                 Preferring(EmbeddedEndpoint, env["S3_ENDPOINT_ENV"],
                            env["AWS_ENDPOINT"])
    /\ (IsSome(config) /\ ~Parsed) =>
          /\ IsSome(Unwrap(captures).port)
          /\ ParseNat(Unwrap(Unwrap(captures).port)) > 65535

\* a URL with a region parsed while both region variables are set to other
\* regions, and both endpoint variables are set
UrlOverridesEnvironmentWitness ==
    /\ Parsed
    /\ IsSome(Unwrap(captures).region)
    /\ IsSome(env["S3_REGION_ENV"]) /\ IsSome(env["AWS_DEFAULT_REGION"])
    /\ env["AWS_DEFAULT_REGION"] # Unwrap(captures).region
    /\ IsSome(env["S3_ENDPOINT_ENV"]) /\ IsSome(env["AWS_ENDPOINT"])
    /\ Unwrap(config).region = Unwrap(captures).region
    /\ Unwrap(config).endpoint = env["S3_ENDPOINT_ENV"]

(***************************************************************************)
(* C22: delete_if_present is idempotent.                                   *)
(***************************************************************************)
\* the delete_if_present call a step makes, if it makes one
Deletes == Len(deleted') = Len(deleted) + 1

\* C22: delete_if_present returns Ok when the object exists and the store
\* deletes it, and the object is gone afterwards; it returns Ok when the
\* object does not exist, whether the store answers NotFound or Ok, and
\* leaves the store as it was; it returns an error exactly when the store
\* answers with another error. So of two calls in a row for a path, with no
\* other store error, both return Ok.
DeleteIfPresentIdempotent ==
    /\ [][Deletes =>
            LET call == deleted'[Len(deleted')]
            IN  /\ call.result = "Err" <=> call.answer \notin {"Ok", "NotFound"}
                /\ call.result = "Ok" =>
                      /\ call.path \notin objects'
                      /\ objects' = objects \ {call.path}
                /\ call.result = "Err" => objects' = objects]_vars
    /\ [](\A i \in 1..Len(deleted) :
             deleted[i].answer \in {"Ok", "NotFound"} =>
                deleted[i].result = "Ok")

\* two calls in a row for the same path returned Ok: the first found the
\* object, the second was answered NotFound
DeleteIfPresentIdempotentWitness ==
    /\ Len(deleted) = 2
    /\ deleted[1].path = deleted[2].path
    /\ deleted[1].present /\ deleted[1].result = "Ok"
    /\ ~deleted[2].present /\ deleted[2].answer = "NotFound"
    /\ deleted[2].result = "Ok"
    /\ deleted[1].path \notin objects

(***************************************************************************)
(* from_checkpoint over the FileCheckpointData a subtask can be handed.    *)
(***************************************************************************)
\* the lists of in-flight parts of a file with one or two slots: slot i is
\* either acknowledged (FinishedPart) or not (InProgressPart), and holds the
\* encoding of one record
CheckpointedParts ==
    {<<p0>> : p0 \in {FinishedPart(0, ContentId(0, Serialize(<<10>>))),
                      InProgressPart(0, Serialize(<<10>>))}}
    \cup
    {<<p0, p1>> :
        p0 \in {FinishedPart(0, ContentId(0, Serialize(<<10>>))),
                InProgressPart(0, Serialize(<<10>>))},
        p1 \in {FinishedPart(1, ContentId(1, Serialize(<<20>>))),
                InProgressPart(1, Serialize(<<20>>))}}

\* the FileCheckpointData values of one file whose upload, if created, has
\* multipart id 1; a checkpoint is taken with no part queued in parts_to_add
CheckpointedData ==
    {Empty}
    \cup {MultiPartNotCreated(<<>>, t) : t \in {None, Some(Serialize(<<3>>))}}
    \cup {MultiPartInFlight(1, ps, t) :
             ps \in CheckpointedParts, t \in {None, Some(Serialize(<<3>>))}}
    \cup {MultiPartWriterClosed(1, ps) : ps \in CheckpointedParts}
    \cup {MultiPartWriterUploadCompleted(1, ids) :
             ids \in {<<ContentId(0, Serialize(<<10>>))>>,
                      <<ContentId(0, Serialize(<<10>>)),
                        ContentId(1, Serialize(<<20>>))>>}}

\* the object store at the checkpoint: the upload of the file, if created,
\* with the parts that were acknowledged
PriorStore(data) ==
    [uploads |->
        CASE data.tag \in {"Empty", "MultiPartNotCreated"} -> <<>>
          [] data.tag \in {"MultiPartInFlight", "MultiPartWriterClosed"} ->
               <<[path |-> FileName(0, 0),
                  parts |-> {[part_index |-> e.part,
                              data |-> e.content_id.etag] :
                                e \in {data.in_flight_parts[i] :
                                         i \in {j \in 1..Len(data.in_flight_parts) :
                                                  data.in_flight_parts[j].tag
                                                      = "FinishedPart"}}}]>>
          [] OTHER ->
               <<[path |-> FileName(0, 0),
                  parts |-> {[part_index |-> id.part, data |-> id.etag] :
                                id \in {data.completed_parts[i] :
                                          i \in 1..Len(data.completed_parts)}}]>>,
     completed |-> EmptyBag]

\* subtask 0 of a restarted job, given one DataRecovery with one active file
InitRecover ==
    /\ SinkAlone
    /\ ActorNew
    /\ receiver = <<>>
    /\ checkpoint_sender = <<>>
    /\ restored \in
          {<<FileSystemDataRecovery(
                 n, <<[filename |-> FileName(0, 0), data |-> d,
                       buffered_data |-> b]>>)>> :
              n \in 1..(MaxNextFileIndex - 1), d \in CheckpointedData,
              b \in {<<>>, <<1>>, <<1, 2>>}}
    /\ store = PriorStore(restored[1].active_files[1].data)
    /\ facade_pc = "idle"
    /\ runtime_pc = "start"
    /\ stopping = FALSE
    /\ input = <<>>
    /\ position = 0
    /\ saved = None
    /\ checkpoints = 0
    /\ crashes = 1
    /\ task_info = [task_index |-> 0]
    /\ out_of_order = {}
    /\ outstanding = {}
    /\ max_opened = -1
    /\ committed_files = {}
    /\ recovered_commit = "no"
    /\ recovered_trailing = {}
    /\ recoveries = <<>>

\* the recovery of one checkpointed file: init and the handling of its Init
SpecRecover == InitRecover /\ [][SinkInit \/ ReceiveInit]_vars

(***************************************************************************)
(* C23: recovery of a file whose multipart upload was not created.         *)
(***************************************************************************)
\* the content ids of the uploads C23 describes: parts_to_add[i] as part
\* i - 1, then the trailing bytes, if any, as the next part
NotCreatedParts(data) ==
    [i \in 1..Len(data.parts_to_add) |->
        ContentId(i - 1, data.parts_to_add[i])]
    \o (IF IsSome(data.trailing_bytes)
        THEN <<ContentId(Len(data.parts_to_add), Unwrap(data.trailing_bytes))>>
        ELSE <<>>)

\* C23: the Init that recovers a MultiPartNotCreated file starts one
\* multipart upload for it, uploads parts_to_add[i] as part i and then the
\* trailing bytes as part |parts_to_add|, and holds a FileToFinish with the
\* new multipart id whose completed_parts are the content ids of exactly
\* those uploads in that order.
NotCreatedRecovery ==
    [][InitHandled =>
          \A i \in 1..Len(Head(receiver).recovered_files) :
             LET file == Head(receiver).recovered_files[i]
                 ids == NotCreatedParts(file.data)
             IN  file.data.tag = "MultiPartNotCreated" =>
                    \E u \in (Len(store.uploads) + 1)..Len(store'.uploads) :
                       /\ store'.uploads[u].path = file.filename
                       /\ store'.uploads[u].parts =
                              {[part_index |-> ids[k].part,
                                data |-> ids[k].etag] : k \in 1..Len(ids)}
                       /\ \E j \in 1..Len(files_to_finish') :
                             files_to_finish'[j] =
                                 FileToFinish(file.filename, u, ids)]_vars

(***************************************************************************)
(* C24: recovery of a file whose multipart upload is in flight or closed.  *)
(***************************************************************************)
\* the file the Init being handled recovers
RecoveredData == Head(receiver).recovered_files[1].data

\* the content id recovery keeps or obtains for a listed part
RecoveredPartId(entry) ==
    IF entry.tag = "FinishedPart" THEN entry.content_id
    ELSE ContentId(entry.part, entry.data)

\* the trailing bytes of a checkpoint, if it is of a variant that holds them
TrailingOf(data) ==
    IF data.tag = "MultiPartInFlight" THEN data.trailing_bytes ELSE None

\* C24: the Init that recovers a MultiPartInFlight or MultiPartWriterClosed
\* file starts no upload and closes none; it adds to the recorded upload
\* exactly the InProgressPart entries, each at its recorded part index, and
\* (MultiPartInFlight, when present) the trailing bytes at the index after
\* the last listed part, so a FinishedPart costs no store call; it holds a
\* FileToFinish with the recorded multipart id whose completed_parts has
\* one content id per listed part in order, followed by the trailing part's.
InFlightRecovery ==
    [][(InitHandled /\ Len(Head(receiver).recovered_files) = 1
        /\ RecoveredData.tag \in {"MultiPartInFlight",
                                  "MultiPartWriterClosed"}) =>
          LET data == RecoveredData
              id == data.multi_part_upload_id
              listed == data.in_flight_parts
              trailing == TrailingOf(data)
          IN  /\ Len(store'.uploads) = Len(store.uploads)
              /\ store'.completed = store.completed
              /\ \A u \in 1..Len(store.uploads) :
                    u # id => store'.uploads[u] = store.uploads[u]
              /\ store'.uploads[id].parts =
                     store.uploads[id].parts
                     \cup {[part_index |-> listed[k].part,
                            data |-> listed[k].data] :
                              k \in {j \in 1..Len(listed) :
                                       listed[j].tag = "InProgressPart"}}
                     \cup (IF IsSome(trailing)
                           THEN {[part_index |-> Len(listed),
                                  data |-> Unwrap(trailing)]}
                           ELSE {})
              /\ files_to_finish' =
                     Append(files_to_finish,
                            FileToFinish(
                                Head(receiver).recovered_files[1].filename, id,
                                [k \in 1..Len(listed) |->
                                    RecoveredPartId(listed[k])]
                                \o (IF IsSome(trailing)
                                    THEN <<ContentId(Len(listed),
                                                     Unwrap(trailing))>>
                                    ELSE <<>>)))]_vars

\* an Init recovered a file in flight with an acknowledged part, a part in
\* progress and trailing bytes: the upload holds three parts and the file to
\* finish lists three
InFlightRecoveryWitness ==
    /\ runtime_pc = "running" /\ receiver = <<>>
    /\ Len(restored) = 1 /\ Len(restored[1].active_files) = 1
    /\ LET data == restored[1].active_files[1].data
       IN  /\ data.tag = "MultiPartInFlight"
           /\ Len(data.in_flight_parts) = 2
           /\ data.in_flight_parts[1].tag = "FinishedPart"
           /\ data.in_flight_parts[2].tag = "InProgressPart"
           /\ IsSome(data.trailing_bytes)
    /\ Len(files_to_finish) = 1
    /\ Len(files_to_finish[1].completed_parts) = 3
    /\ Cardinality(store.uploads[1].parts) = 3

(***************************************************************************)
(* C25: recovery of an Empty file and of a file whose uploads completed.   *)
(***************************************************************************)
\* C25: the Init that recovers an Empty file adds no FileToFinish, and the
\* Init that recovers a MultiPartWriterUploadCompleted file adds a
\* FileToFinish with the file's name, the recorded multipart id and the
\* recorded completed_parts in the same order; in both cases the object
\* store is left as it was.
PassThroughRecovery ==
    [][(InitHandled /\ Len(Head(receiver).recovered_files) = 1
        /\ RecoveredData.tag \in {"Empty",
                                  "MultiPartWriterUploadCompleted"}) =>
          /\ store' = store
          /\ files_to_finish' =
                 IF RecoveredData.tag = "Empty"
                 THEN files_to_finish
                 ELSE Append(files_to_finish,
                             FileToFinish(
                                 Head(receiver).recovered_files[1].filename,
                                 RecoveredData.multi_part_upload_id,
                                 RecoveredData.completed_parts))]_vars

\* an Init recovered a file whose two parts were uploaded: the file to
\* finish lists them as recorded and the store is as it was
PassThroughRecoveryWitness ==
    /\ runtime_pc = "running" /\ receiver = <<>>
    /\ Len(restored) = 1 /\ Len(restored[1].active_files) = 1
    /\ LET data == restored[1].active_files[1].data
       IN  /\ data.tag = "MultiPartWriterUploadCompleted"
           /\ Len(data.completed_parts) = 2
           /\ Len(files_to_finish) = 1
           /\ files_to_finish[1].completed_parts = data.completed_parts
           /\ store = PriorStore(data)

(***************************************************************************)
(* C26: the buffered records of a recovered file go to the new writer.     *)
(***************************************************************************)
\* the byte blocks a checkpoint of a file holds or names by content id
CheckpointedBytes(data) ==
    CASE data.tag = "Empty" -> {}
      [] data.tag = "MultiPartNotCreated" ->
             {data.parts_to_add[i] : i \in 1..Len(data.parts_to_add)}
             \cup {data.trailing_bytes[i] : i \in 1..Len(data.trailing_bytes)}
      [] data.tag = "MultiPartInFlight" ->
             {IF e.tag = "FinishedPart" THEN e.content_id.etag ELSE e.data :
                 e \in {data.in_flight_parts[i] :
                          i \in 1..Len(data.in_flight_parts)}}
             \cup {data.trailing_bytes[i] : i \in 1..Len(data.trailing_bytes)}
      [] data.tag = "MultiPartWriterClosed" ->
             {IF e.tag = "FinishedPart" THEN e.content_id.etag ELSE e.data :
                 e \in {data.in_flight_parts[i] :
                          i \in 1..Len(data.in_flight_parts)}}
      [] OTHER -> {data.completed_parts[i].etag :
                      i \in 1..Len(data.completed_parts)}

\* C26: the Init step makes the writer named by the message's max_file_index
\* the current writer and hands it the records of every recovered file's
\* buffered_data, in order and nothing else; no recovered file becomes a
\* writer, the FileToFinish of a recovered file holds only parts made of
\* the bytes of its checkpoint, and so does every part the step uploads
\* under the recovered file's name.
BufferedDataToNewWriter ==
    [][InitHandled =>
          LET msg == Head(receiver)
              files == msg.recovered_files
              fresh == FileName(msg.max_file_index, msg.subtask_id)
          IN  /\ current_writer_name' = fresh
              /\ fresh \in DOMAIN writers'
              /\ HandedBytes(writers'[fresh]) =
                     Concat([i \in 1..Len(files) |->
                                Serialize(files[i].buffered_data)])
              /\ \A i \in 1..Len(files) :
                    /\ files[i].filename # fresh
                    /\ files[i].filename \notin DOMAIN writers'
                    /\ \A j \in 1..Len(files_to_finish') :
                          files_to_finish'[j].filename = files[i].filename =>
                             \A k \in 1..Len(files_to_finish'[j].completed_parts) :
                                files_to_finish'[j].completed_parts[k].etag
                                    \in CheckpointedBytes(files[i].data)
                    /\ \A u \in 1..Len(store'.uploads) :
                          store'.uploads[u].path = files[i].filename =>
                             \A p \in store'.uploads[u].parts :
                                \/ /\ u <= Len(store.uploads)
                                   /\ p \in store.uploads[u].parts
                                \/ p.data \in CheckpointedBytes(files[i].data)]_vars

\* an Init recovered a file in flight that carried two buffered records: the
\* new current writer holds their encodings in order, the recovered file is
\* pending and is no writer
BufferedDataToNewWriterWitness ==
    /\ runtime_pc = "running" /\ receiver = <<>>
    /\ Len(restored) = 1 /\ Len(restored[1].active_files) = 1
    /\ restored[1].active_files[1].data.tag = "MultiPartInFlight"
    /\ restored[1].active_files[1].buffered_data = <<1, 2>>
    /\ current_writer_name = FileName(restored[1].next_file_index, 0)
    /\ current_writer_name \in DOMAIN writers
    /\ HandedBytes(writers[current_writer_name]) = Serialize(<<1, 2>>)
    /\ Len(files_to_finish) = 1
    /\ files_to_finish[1].filename = restored[1].active_files[1].filename
    /\ files_to_finish[1].filename \notin DOMAIN writers

(***************************************************************************)
(* C27: closing a writer that never received a record.                     *)
(***************************************************************************)
\* a writer that never received a record and has no parts
NeverWritten(w) ==
    /\ w.stats = None
    /\ w.multipart_manager.pushed_parts = <<>>
    /\ w.multipart_manager.parts_to_add = <<>>
    /\ w.batch_buffering_writer.current_buffer = <<>>

\* C27: the step that closes a writer that never received a record and has
\* no parts puts its UploadsFinished future into the pool, and the step
\* that processes that callback removes the writer from the writer map,
\* leaves the object store as it was and leaves the actor running.
EmptyWriterCollected ==
    /\ [][\A n \in DOMAIN writers :
             (/\ NeverWritten(writers[n])
              /\ ~writers[n].multipart_manager.closed
              /\ n \in DOMAIN writers'
              /\ writers'[n].multipart_manager.closed) =>
                 UploadsFinishedFuture(n) \in futures']_vars
    /\ [][\A f \in futures :
             (/\ f.kind = "UploadsFinished"
              /\ f.name \in DOMAIN writers
              /\ NeverWritten(writers[f.name])
              /\ complete_future(f)) =>
                 /\ writers' = Remove(writers, f.name)
                 /\ store' = store
                 /\ status' = "running"]_vars

(***************************************************************************)
(* C28: a pending FileToFinish is handed out by the next checkpoint only.  *)
(***************************************************************************)
\* the names of the files a pre-commit token was handed out for: those of
\* the last saved checkpoint and those committed
HandedOut ==
    {f.filename : f \in committed_files}
    \cup (IF IsSome(saved)
          THEN {f.filename : f \in PreCommitFiles(Unwrap(saved).pre_commit)}
          ELSE {})

\* C28: a file stays in the pending list, in the order of its arrival, until
\* the actor ends the handling of a Checkpoint message (or the subtask
\* restarts); that step sends one MultiPartWriterUploadCompleted artifact
\* for each pending file, sends no other artifact of this variant, and
\* empties the list; no file of the list was handed out by an earlier
\* checkpoint, and no two entries of the list name the same file.
PendingHandedOutOnce ==
    /\ [][(CheckpointHandled /\ crashes' = crashes) =>
             /\ files_to_finish' = <<>>
             /\ \A j \in 1..Len(files_to_finish) :
                   /\ Cardinality({i \in 1..Len(Sent) :
                                      Sent[i] = FileArtifact(files_to_finish[j])})
                          = 1
                   /\ files_to_finish[j].filename \notin HandedOut
             /\ Cardinality({i \in 1..Len(Sent) :
                                /\ Sent[i].kind = "InProgressFileCheckpoint"
                                /\ Sent[i].data.tag
                                       = "MultiPartWriterUploadCompleted"})
                    = Len(files_to_finish)]_vars
    /\ [][(~CheckpointHandled /\ crashes' = crashes) =>
             /\ Len(files_to_finish') >= Len(files_to_finish)
             /\ SubSeq(files_to_finish', 1, Len(files_to_finish))
                    = files_to_finish]_vars
    /\ [](\A i, j \in 1..Len(files_to_finish) :
             files_to_finish[i].filename = files_to_finish[j].filename
                 => i = j)

\* two checkpoints of a subtask each handed out a token for a file: the
\* first file is committed, the second is in the saved pre-commit map, they
\* differ, and the pending list is empty
PendingHandedOutOnceWitness ==
    /\ checkpoints = 2 /\ pc = "select" /\ facade_pc = "idle"
    /\ files_to_finish = <<>>
    /\ committed_files # {}
    /\ IsSome(saved) /\ ~Unwrap(saved).committed
    /\ PreCommitFiles(Unwrap(saved).pre_commit) # {}
    /\ \A f \in PreCommitFiles(Unwrap(saved).pre_commit) :
          \A g \in committed_files : f.filename # g.filename

(***************************************************************************)
(* C29: a writer leaves the writer map when its file becomes pending.      *)
(***************************************************************************)
\* the files a step appends to the pending list
Appended ==
    IF Len(files_to_finish') > Len(files_to_finish)
    THEN {files_to_finish'[j] :
             j \in (Len(files_to_finish) + 1)..Len(files_to_finish')}
    ELSE {}

\* C29: in a step of a running actor a writer leaves the writer map exactly
\* when a FileToFinish of its name is appended to the pending list; the
\* step is the processing of a CompletedPart or UploadsFinished callback of
\* that writer, the writer is closed, and the file lists one part for each
\* of its slots, every other slot being acknowledged already, so a closed
\* writer with an unacknowledged part stays in the map; the name was not
\* pending before and the step appends it once; and no file of the pending
\* list is the file of a writer.
WriterRemovedWhenPending ==
    /\ [][crashes' = crashes =>
             \A n \in DOMAIN writers :
                /\ n \notin DOMAIN writers'
                       <=> \E file \in Appended : file.filename = n
                /\ n \notin DOMAIN writers' =>
                      LET mm == writers[n].multipart_manager
                      IN  /\ mm.closed
                          /\ \E f \in futures \ futures' :
                                /\ f.name = n
                                /\ f.kind \in {"CompletedPart",
                                               "UploadsFinished"}
                                /\ \A i \in 1..Len(mm.pushed_parts) :
                                      \/ mm.pushed_parts[i].tag = "UploadPart"
                                      \/ /\ f.kind = "CompletedPart"
                                         /\ f.part_index = i - 1
                          /\ \A file \in Appended :
                                Len(file.completed_parts) = Len(mm.pushed_parts)
                          /\ n \notin PendingNames
                          /\ Len(files_to_finish') = Len(files_to_finish) + 1]_vars
    /\ [](\A n \in DOMAIN writers : n \notin PendingNames)

\* the last part of a closed writer was acknowledged: its file is pending
\* with its part, and it is no longer in the writer map
WriterRemovedWhenPendingWitness ==
    /\ crashes = 0 /\ status = "running"
    /\ Len(files_to_finish) = 1
    /\ Len(files_to_finish[1].completed_parts) = 1
    /\ files_to_finish[1].filename \notin DOMAIN writers
    /\ DOMAIN writers # {}

(***************************************************************************)
(* C30: uploaded_parts counts the acknowledged slots.                      *)
(***************************************************************************)
\* the slots of a manager that hold an acknowledged part
UploadedSlots(mm) ==
    {i \in 1..Len(mm.pushed_parts) : mm.pushed_parts[i].tag = "UploadPart"}

\* C30: for every writer of the map, uploaded_parts is the number of slots
\* of pushed_parts that hold an uploaded part, so all_uploads_finished holds
\* exactly when the file is closed and every slot holds an uploaded part.
UploadedPartsCount ==
    \A n \in DOMAIN writers :
       LET mm == writers[n].multipart_manager
       IN  /\ mm.uploaded_parts = Cardinality(UploadedSlots(mm))
           /\ all_uploads_finished(mm) <=>
                  (mm.closed /\ UploadedSlots(mm) = 1..Len(mm.pushed_parts))

\* a writer has two slots of which the second was acknowledged first: it
\* counts one uploaded part
UploadedPartsCountWitness ==
    \E n \in DOMAIN writers :
       LET mm == writers[n].multipart_manager
       IN  /\ Len(mm.pushed_parts) = 2
           /\ mm.pushed_parts[1].tag = "BufferedData"
           /\ mm.pushed_parts[2].tag = "UploadPart"
           /\ mm.uploaded_parts = 1

(***************************************************************************)
(* C31: a closed file takes no new part.                                   *)
(***************************************************************************)
\* the number of byte blocks write_next_part was given for a writer: each is
\* in parts_to_add until the multipart id arrives and in pushed_parts after
EnqueuedParts(w) ==
    Len(w.multipart_manager.parts_to_add)
        + Len(w.multipart_manager.pushed_parts)

\* the byte block write_next_part was given last
LastEnqueued(w) ==
    LET mm == w.multipart_manager
    IN  IF mm.parts_to_add # <<>>
        THEN mm.parts_to_add[Len(mm.parts_to_add)].byte_data
        ELSE mm.pushed_parts[Len(mm.pushed_parts)].data

\* C31 as stated: no part is enqueued for a file whose closed flag is true,
\* that is, a step in which write_next_part is called for a writer leaves
\* the writer open.  It does not hold: close() sets the flag and then hands
\* the bytes still buffered to write_next_part.
NoPartEnqueuedOnceClosed ==
    [][\A n \in DOMAIN writers \cap DOMAIN writers' :
          writers'[n].multipart_manager.closed
              => EnqueuedParts(writers'[n]) = EnqueuedParts(writers[n])]_vars

\* C31: a closed writer of the writer map stays closed, is given no record
\* (its encoder buffer and its stats stay as they are) and has no part
\* enqueued by write_next_part (parts only move from parts_to_add to
\* pushed_parts when the multipart id arrives); the one part enqueued with
\* the closed flag set is the part close() itself enqueues, in the step that
\* sets the flag, with the bytes the encoder still buffered.
ClosedWriterTakesNoPart ==
    [][\A n \in DOMAIN writers \cap DOMAIN writers' :
          LET w == writers[n]
              v == writers'[n]
          IN  /\ w.multipart_manager.closed
                  => /\ v.multipart_manager.closed
                     /\ EnqueuedParts(v) = EnqueuedParts(w)
                     /\ v.batch_buffering_writer = w.batch_buffering_writer
                     /\ v.stats = w.stats
              /\ (~w.multipart_manager.closed /\ v.multipart_manager.closed)
                  => /\ v.stats = w.stats
                     /\ v.batch_buffering_writer.current_buffer = <<>>
                     /\ IF w.batch_buffering_writer.current_buffer = <<>>
                        THEN EnqueuedParts(v) = EnqueuedParts(w)
                        ELSE /\ EnqueuedParts(v) = EnqueuedParts(w) + 1
                             /\ LastEnqueued(v) =
                                    w.batch_buffering_writer.current_buffer
      ]_vars

\* a closed writer with a part is still in the map while the current writer,
\* opened by the roll, has been given a record
ClosedWriterTakesNoPartWitness ==
    \E n \in DOMAIN writers :
       /\ writers[n].multipart_manager.closed
       /\ EnqueuedParts(writers[n]) >= 1
       /\ n # current_writer_name
       /\ current_writer_name \in DOMAIN writers
       /\ IsSome(writers[current_writer_name].stats)

(***************************************************************************)
(* A RollingPolicy taken alone: built from any file settings, then asked   *)
(* about the stats of one writer.  Sizes are in bytes, durations in        *)
(* seconds.                                                                *)
(***************************************************************************)
\* the FileSettings a table can carry: each limit absent or set
FileSettingsValues ==
    [target_part_size : {Some(TargetPartSize)},
     max_parts : {None, Some(1), Some(2)},
     target_file_size : {None, Some(2), Some(4)},
     inactivity_rollover_seconds : {None, Some(1), Some(2)},
     rollover_seconds : {None, Some(1), Some(2)}]

\* the stats of a writer when the policy is asked, with the times elapsed
\* since its last and its first write: the last write is not before the first
StatsValues ==
    {s \in [stats : [bytes_written : {0, 2, 4},
                     parts_written : {0, 1, 2, 999, 1000}],
            elapsed : [last_write : {0, 1, 2, 29, 30},
                       first_write : {0, 1, 2, 29, 30}]] :
        s.elapsed.last_write <= s.elapsed.first_write}

\* file settings and the stats of a writer, before the policy is built
InitPolicy ==
    /\ from_config /\ NoStorage /\ NoCheckpoint
    /\ policy_settings \in {Some(f) : f \in FileSettingsValues}
    /\ policy_stats \in {Some(s) : s \in StatsValues}
    /\ policy_built = None
    /\ policy_rolls = None

\* RollingPolicy::from_file_settings
FromFileSettings ==
    /\ IsSome(policy_settings) /\ policy_built = None
    /\ policy_built' = Some(from_file_settings(Unwrap(policy_settings)))
    /\ UNCHANGED <<policy_settings, policy_stats, policy_rolls>>
    /\ UNCHANGED <<actor_vars, channel_vars, store, facade_pc, runtime_pc,
                   stopping, source_vars, saved, checkpoints, crashes,
                   task_vars, storage_vars, controller_vars, history_vars>>

\* RollingPolicy::should_roll on the policy built
ShouldRoll ==
    /\ IsSome(policy_built) /\ policy_rolls = None
    /\ policy_rolls' = Some(should_roll(Unwrap(policy_built),
                                        Unwrap(policy_stats).stats,
                                        Unwrap(policy_stats).elapsed))
    /\ UNCHANGED <<policy_settings, policy_stats, policy_built>>
    /\ UNCHANGED <<actor_vars, channel_vars, store, facade_pc, runtime_pc,
                   stopping, source_vars, saved, checkpoints, crashes,
                   task_vars, storage_vars, controller_vars, history_vars>>

SpecPolicy == InitPolicy /\ [][FromFileSettings \/ ShouldRoll]_vars

(***************************************************************************)
(* C32: what the rolling policy is made of and when it fires.              *)
(***************************************************************************)
\* the component policies the claim expects for the given file settings
ExpectedPolicies(settings) ==
    {PartLimit(IF IsSome(settings.max_parts)
               THEN Unwrap(settings.max_parts) ELSE 1000),
     RolloverDuration(IF IsSome(settings.rollover_seconds)
                      THEN Unwrap(settings.rollover_seconds) ELSE 30)}
    \cup (IF IsSome(settings.target_file_size)
          THEN {SizeLimit(Unwrap(settings.target_file_size))} ELSE {})
    \cup (IF IsSome(settings.inactivity_rollover_seconds)
          THEN {InactivityDuration(
                    Unwrap(settings.inactivity_rollover_seconds))}
          ELSE {})

\* C32: the policy built from any file settings is made of PartLimit (the
\* configured max_parts, 1000 by default), RolloverDuration (the configured
\* rollover_seconds, 30 by default), and SizeLimit and InactivityDuration
\* exactly when they are configured, each once; and should_roll is true
\* exactly when parts_written >= the part limit, or bytes_written >= the
\* configured size limit, or the time since the last write >= the
\* configured inactivity duration, or the time since the first write >=
\* the rollover duration.
ShouldRollWhenAnyHolds ==
    /\ IsSome(policy_built) =>
          LET built == Unwrap(policy_built)
              expected == ExpectedPolicies(Unwrap(policy_settings))
          IN  /\ {built[i] : i \in 1..Len(built)} = expected
              /\ Len(built) = Cardinality(expected)
    /\ IsSome(policy_rolls) =>
          LET settings == Unwrap(policy_settings)
              st == Unwrap(policy_stats).stats
              el == Unwrap(policy_stats).elapsed
          IN  Unwrap(policy_rolls) <=>
                 \/ st.parts_written >=
                        (IF IsSome(settings.max_parts)
                         THEN Unwrap(settings.max_parts) ELSE 1000)
                 \/ /\ IsSome(settings.target_file_size)
                    /\ st.bytes_written >= Unwrap(settings.target_file_size)
                 \/ /\ IsSome(settings.inactivity_rollover_seconds)
                    /\ el.last_write >=
                           Unwrap(settings.inactivity_rollover_seconds)
                 \/ el.first_write >=
                        (IF IsSome(settings.rollover_seconds)
                         THEN Unwrap(settings.rollover_seconds) ELSE 30)

\* a policy with the default part limit alone fires for a writer that has
\* written 1000 parts, while a size limit and an inactivity duration are
\* configured and not reached
ShouldRollWhenAnyHoldsWitness ==
    /\ IsSome(policy_rolls) /\ Unwrap(policy_rolls)
    /\ Unwrap(policy_settings).max_parts = None
    /\ Unwrap(policy_settings).target_file_size = Some(4)
    /\ Unwrap(policy_settings).inactivity_rollover_seconds = Some(2)
    /\ Unwrap(policy_settings).rollover_seconds = None
    /\ Unwrap(policy_stats).stats.parts_written = 1000
    /\ Unwrap(policy_stats).stats.bytes_written = 2
    /\ Unwrap(policy_stats).elapsed.last_write = 1
    /\ Unwrap(policy_stats).elapsed.first_write = 29

(***************************************************************************)
(* C33: what a timer tick does.                                            *)
(***************************************************************************)
\* the rolling policy fires for the current writer, for the times elapsed
PolicyFires(elapsed) ==
    /\ current_writer_name \in DOMAIN writers
    /\ IsSome(writers[current_writer_name].stats)
    /\ should_roll(rolling_policy,
                   Unwrap(writers[current_writer_name].stats), elapsed)

\* the writer map ws, the index and the current writer after a roll of the
\* current writer: it is closed and still in the map, the index is one
\* higher, and a fresh open writer named with the new index is current
IsRoll(ws, index, current) ==
    /\ index = max_file_index + 1
    /\ current = FileName(index, subtask_id)
    /\ current \notin DOMAIN writers
    /\ DOMAIN ws = DOMAIN writers \cup {current}
    /\ ws[current] = BatchMultipartWriter_new(current)
    /\ ~ws[current].multipart_manager.closed
    /\ ~writers[current_writer_name].multipart_manager.closed
    /\ ws[current_writer_name].multipart_manager.closed
    /\ ws[current_writer_name].stats = writers[current_writer_name].stats
    /\ \A n \in DOMAIN writers \ {current_writer_name} : ws[n] = writers[n]

\* a step of the select! loop that takes no message and changes the index
\* or the current writer: a tick that rolls
TickRolls ==
    /\ pc = "select" /\ pc' = "select"
    /\ receiver' = receiver /\ crashes' = crashes
    /\ \/ max_file_index' # max_file_index
       \/ current_writer_name' # current_writer_name

\* C33: in every state the select! loop can take a tick in, and for every
\* time the tick can find elapsed: when the policy fires for the current
\* writer the tick closes it and leaves it in the map, raises
\* max_file_index by one and makes a fresh open writer of the new index
\* current; when it does not fire, or the current writer has no stats, the
\* tick changes no writer and no index.  And the steps that roll are such
\* ticks: they send nothing, touch neither the store nor the files to
\* finish, and happen only to a current writer that has stats.
RollOnTick ==
    /\ [](Selecting =>
            \A elapsed \in Elapsed :
               LET r == policy_check(elapsed)
               IN  IF PolicyFires(elapsed)
                   THEN IsRoll(r.writers, r.max_file_index,
                               r.current_writer_name)
                   ELSE /\ r.writers = writers
                        /\ r.futures = futures
                        /\ r.max_file_index = max_file_index
                        /\ r.current_writer_name = current_writer_name)
    /\ [][TickRolls =>
            /\ \E elapsed \in Elapsed : PolicyFires(elapsed)
            /\ IsRoll(writers', max_file_index', current_writer_name')
            /\ subtask_id' = subtask_id
            /\ files_to_finish' = files_to_finish
            /\ store' = store
            /\ checkpoint_sender' = checkpoint_sender]_vars

\* after a roll: the closed writer of index 0 is still in the map with its
\* closing part being uploaded, and the fresh writer of index 1 is current
RollOnTickWitness ==
    /\ max_file_index = 1
    /\ current_writer_name = FileName(1, subtask_id)
    /\ current_writer_name \in DOMAIN writers
    /\ writers[current_writer_name].stats = None
    /\ FileName(0, subtask_id) \in DOMAIN writers
    /\ writers[FileName(0, subtask_id)].multipart_manager.closed
    /\ futures # {}

(***************************************************************************)
(* C34: the projection of a closed file that has no multipart id.          *)
(***************************************************************************)
\* whether a manager holds data: a queued or a pushed part
HoldsData(mm) == mm.parts_to_add # <<>> \/ mm.pushed_parts # <<>>

\* C34  The checkpoint projection of a file is Empty only when the file
\* holds no data: for every closed writer of the map that has no multipart
\* id and has byte blocks waiting in parts_to_add, the projection is
\* MultiPartNotCreated with those blocks and no trailing bytes.  The code
\* does not do this: it tells the two cases apart by pushed_size, which
\* stays 0 from construction, so the projection is Empty whatever is queued.
ClosedProjectionKeepsData ==
    \A n \in DOMAIN writers :
       LET mm == writers[n].multipart_manager
       IN  (mm.closed /\ ~IsSome(mm.multipart_id)) =>
              /\ get_in_progress_checkpoint(writers[n]) = Empty
                     => ~HoldsData(mm)
              /\ mm.parts_to_add # <<>>
                     => get_in_progress_checkpoint(writers[n])
                            = MultiPartNotCreated(QueuedBytes(mm), None)

(***************************************************************************)
(* C35: start_multipart is scheduled once per writer.                      *)
(***************************************************************************)
\* the uploads the store has started under a path
StartedUploads(path) ==
    {k \in 1..Len(store.uploads) : store.uploads[k].path = path}

\* the futures of the pool that upload a part of a writer
UploadFutures(pool, writer_name) ==
    {f \in pool : f.kind = "CompletedPart" /\ f.name = writer_name}

\* the futures a step adds to the pool for a writer, other than the
\* UploadsFinished future of a close
ScheduledFor(writer_name) ==
    {f \in futures' \ futures :
        f.name = writer_name /\ f.kind # "UploadsFinished"}

\* whether one sequence starts with another
IsPrefix(s, t) == Len(s) <= Len(t) /\ SubSeq(t, 1, Len(s)) = s

\* C35: for every writer, start_multipart is pending or done at most once.
\* Without a multipart id, start_multipart is pending exactly while
\* parts_to_add is not empty, and write_next_part schedules it exactly when
\* parts_to_add is empty, and appends the block with its position; a step
\* before the id arrives only appends to parts_to_add and, after the first
\* part, schedules nothing.  The step in which the id arrives empties
\* parts_to_add, gives each queued part its slot in order and schedules one
\* upload for each, with its index and bytes.  With an id, parts_to_add is
\* empty and stays empty, the id stays, and start_multipart is not pending.
StartMultipartOnce ==
    /\ [](\A n \in DOMAIN writers :
            LET mm == writers[n].multipart_manager
                pending == IF InitializeFuture(n) \in futures THEN 1 ELSE 0
                written == write_next_part(mm, <<"x">>)
            IN  /\ Cardinality(StartedUploads(n)) + pending <= 1
                /\ IsSome(mm.multipart_id) =>
                      /\ mm.parts_to_add = <<>>
                      /\ pending = 0
                      /\ StartedUploads(n) = {Unwrap(mm.multipart_id)}
                /\ ~IsSome(mm.multipart_id) =>
                      /\ pending = 1 <=> mm.parts_to_add # <<>>
                      /\ StartedUploads(n) = {}
                      /\ written.futures =
                             IF mm.parts_to_add = <<>>
                             THEN {InitializeFuture(n)} ELSE {}
                      /\ written.mm =
                             [mm EXCEPT !.parts_to_add =
                                 Append(@, [byte_data |-> <<"x">>,
                                            part_index |->
                                                Len(mm.parts_to_add)])])
    /\ [][\A n \in DOMAIN writers \cap DOMAIN writers' :
            LET mm == writers[n].multipart_manager
                after == writers'[n].multipart_manager
            IN  /\ IsSome(mm.multipart_id) =>
                      /\ after.multipart_id = mm.multipart_id
                      /\ after.parts_to_add = <<>>
                /\ (~IsSome(mm.multipart_id) /\ ~IsSome(after.multipart_id))
                      => /\ IsPrefix(mm.parts_to_add, after.parts_to_add)
                         /\ after.pushed_parts = <<>>
                         /\ ScheduledFor(n) =
                                IF mm.parts_to_add = <<>>
                                   /\ after.parts_to_add # <<>>
                                THEN {InitializeFuture(n)} ELSE {}
                /\ (~IsSome(mm.multipart_id) /\ IsSome(after.multipart_id))
                      => /\ after.parts_to_add = <<>>
                         /\ after.pushed_parts =
                                [i \in 1..Len(mm.parts_to_add) |->
                                    BufferedData(mm.parts_to_add[i].byte_data)]
                         /\ UploadFutures(futures', n) =
                                {PartUploadFuture(n,
                                                  Unwrap(after.multipart_id),
                                                  mm.parts_to_add[i]) :
                                    i \in 1..Len(mm.parts_to_add)}
                         /\ Cardinality(UploadFutures(futures', n))
                                = Len(mm.parts_to_add)
                         /\ UploadFutures(futures, n) = {}]_vars

\* the multipart id of a writer has arrived after two parts were queued:
\* both have their slot and their upload is pending, and the store has
\* started one upload for the file
StartMultipartOnceWitness ==
    \E n \in DOMAIN writers :
       LET mm == writers[n].multipart_manager
       IN  /\ IsSome(mm.multipart_id)
           /\ Len(mm.pushed_parts) = 2
           /\ Cardinality(UploadFutures(futures, n)) = 2
           /\ Cardinality(StartedUploads(n)) = 1

(***************************************************************************)
(* C36: every callback finds its writer.                                   *)
(***************************************************************************)
\* the futures a step takes out of the pool: the one whose callback it
\* processes
Processed == futures \ futures'

\* C36  In every interleaving of Data messages, ticks, Init, Checkpoint and
\* completions of upload futures, each callback the actor processes names a
\* writer that is in the writer map: no UploadsFinished, InitializedMultipart
\* or CompletedPart callback reaches a writer that was removed.  The code
\* does not keep this: a writer closed while its start_multipart is
\* outstanding gets an UploadsFinished future at once (see C20), and is
\* removed by its last CompletedPart before that callback is processed.
CallbackFindsWriter ==
    [][\A f \in Processed : f.name \in DOMAIN writers]_vars

(***************************************************************************)
(* C37: a checkpoint describes drained writers.                            *)
(***************************************************************************)
\* whether the projection of a file names neither a part in progress nor a
\* queued part
IsDrained(data) ==
    CASE data.tag = "MultiPartNotCreated" -> data.parts_to_add = <<>>
      [] data.tag \in {"MultiPartInFlight", "MultiPartWriterClosed"} ->
            \A i \in 1..Len(data.in_flight_parts) :
               data.in_flight_parts[i].tag = "FinishedPart"
      [] OTHER -> TRUE

\* C37: every InProgressFileCheckpoint a Checkpoint emits holds no
\* InProgressPart entry and no queued part, and no buffered record: bytes
\* not yet uploaded are only its trailing bytes.  For when take_checkpoint
\* runs the pool is empty, and every writer of the map has every slot
\* uploaded and counted and nothing left in parts_to_add.
CheckpointOfDrainedWriters ==
    /\ [](Running /\ pc = "take_checkpoint" =>
            /\ futures = {}
            /\ \A n \in DOMAIN writers :
                  LET mm == writers[n].multipart_manager
                  IN  /\ AllUploaded(mm)
                      /\ mm.uploaded_parts = Len(mm.pushed_parts)
                      /\ mm.parts_to_add = <<>>)
    /\ [][(CheckpointHandled /\ crashes' = crashes) =>
            \A i \in 1..Len(Sent) :
               Sent[i].kind = "InProgressFileCheckpoint" =>
                  /\ IsDrained(Sent[i].data)
                  /\ Sent[i].buffered_data = <<>>]_vars

\* a checkpoint has sent the artifact of a writer with an uploaded part and
\* trailing bytes: its part is listed as finished
CheckpointOfDrainedWritersWitness ==
    \E i \in 1..Len(checkpoint_sender) :
       LET artifact == checkpoint_sender[i]
       IN  /\ artifact.kind = "InProgressFileCheckpoint"
           /\ artifact.data.tag = "MultiPartInFlight"
           /\ Len(artifact.data.in_flight_parts) = 1
           /\ artifact.data.in_flight_parts[1].tag = "FinishedPart"
           /\ IsSome(artifact.data.trailing_bytes)

(***************************************************************************)
(* CheckpointState (arroyo-controller, checkpoint_state.rs): the           *)
(* controller's record of one checkpoint of a job.  self is the struct;    *)
(* written is what StateBackend::write_operator_checkpoint_metadata was    *)
(* given so far.  Times are in microseconds.  SubtaskState is defined in   *)
(* subtask_state.rs.                                                       *)
(***************************************************************************)
\* the events one checkpoint may receive
MaxEvents == 3
\* the time of every event and the time of every completion report
EventTime == 1
ReportTime == 2

\* Program::tasks_per_operator of the job: two operators, of two subtasks
\* and of one
ProgramTasksPerOperator == [a |-> 2, b |-> 1]

\* SubtaskState::new
SubtaskState_new == [start_time |-> None, finish_time |-> None,
                     metadata |-> None]

\* SubtaskState::event
SubtaskState_event(s, c) ==
    IF c.event_type = "StartedCheckpointing"
    THEN [s EXCEPT !.start_time = Some(c.time)]
    ELSE s

\* SubtaskState::finish
SubtaskState_finish(s, c) ==
    [s EXCEPT !.finish_time = Some(c.time), !.metadata = Some(Unwrap(c.metadata))]

\* SubtaskState::done
SubtaskState_done(s) == IsSome(s.finish_time)

\* the api::TaskCheckpointEventType recorded for a grpc event type
api_event_type(event_type) ==
    CASE event_type = "StartedAlignment" -> "AlignmentStarted"
      [] event_type = "StartedCheckpointing" -> "CheckpointStarted"
      [] event_type = "FinishedOperatorSetup" -> "CheckpointOperatorFinished"
      [] event_type = "FinishedSync" -> "CheckpointSyncFinished"
      [] event_type = "FinishedCommit" -> "CheckpointPreCommit"

\* CheckpointState::new
CheckpointState_new(tasks_of) ==
    [tasks_per_operator |-> tasks_of,
     tasks |-> <<>>,
     completed_operators |-> {},
     subtasks_to_commit |-> {},
     operator_details |-> <<>>]

\* entry(key).or_insert_with(value): the map with the key present
OrInsert(map, key, value) ==
    IF key \in DOMAIN map THEN map ELSE Insert(map, key, value)

\* a checkpoint_event that takes a FinishedCommit event as any other
checkpoint_event_taking_commit(self, c) ==
    LET with_operator ==
            OrInsert(self.operator_details, c.operator_id,
                     [operator_id |-> c.operator_id, start_time |-> c.time,
                      finish_time |-> None, has_state |-> FALSE,
                      tasks |-> <<>>])
        with_task ==
            OrInsert(with_operator[c.operator_id].tasks, c.subtask_index,
                     [subtask_index |-> c.subtask_index,
                      start_time |-> c.time, finish_time |-> None,
                      bytes |-> None, events |-> <<>>])
        pushed ==
            [with_task EXCEPT ![c.subtask_index].events =
                Append(@, [time |-> c.time,
                           event_type |-> api_event_type(c.event_type)])]
        subtasks == OrInsert(OrInsert(self.tasks, c.operator_id, <<>>)
                                 [c.operator_id],
                             c.subtask_index, SubtaskState_new)
    IN  [self |-> [self EXCEPT
                     !.operator_details =
                         [with_operator EXCEPT
                            ![c.operator_id].tasks = pushed],
                     !.tasks =
                         Insert(self.tasks, c.operator_id,
                                [subtasks EXCEPT ![c.subtask_index] =
                                    SubtaskState_event(@, c)])],
         result |-> "Ok"]

\* CheckpointState::checkpoint_event; result is "Ok" or "Err"
checkpoint_event(self, c) ==
    IF c.event_type = "FinishedCommit"
    THEN [self |-> self, result |-> "Err"]
    ELSE
    LET with_operator ==
            OrInsert(self.operator_details, c.operator_id,
                     [operator_id |-> c.operator_id, start_time |-> c.time,
                      finish_time |-> None, has_state |-> FALSE,
                      tasks |-> <<>>])
        with_task ==
            OrInsert(with_operator[c.operator_id].tasks, c.subtask_index,
                     [subtask_index |-> c.subtask_index,
                      start_time |-> c.time, finish_time |-> None,
                      bytes |-> None, events |-> <<>>])
        pushed ==
            [with_task EXCEPT ![c.subtask_index].events =
                Append(@, [time |-> c.time,
                           event_type |-> api_event_type(c.event_type)])]
        subtasks == OrInsert(OrInsert(self.tasks, c.operator_id, <<>>)
                                 [c.operator_id],
                             c.subtask_index, SubtaskState_new)
    IN  [self |-> [self EXCEPT
                     !.operator_details =
                         [with_operator EXCEPT
                            ![c.operator_id].tasks = pushed],
                     !.tasks =
                         Insert(self.tasks, c.operator_id,
                                [subtasks EXCEPT ![c.subtask_index] =
                                    SubtaskState_event(@, c)])],
         result |-> "Ok"]

\* the least element of a set of numbers
Least(S) == CHOOSE m \in S : \A x \in S : m <= x

RECURSIVE SumBytes(_, _)
\* the fold over the subtasks that adds up metadata.bytes
SumBytes(subtasks, indices) ==
    IF indices = {} THEN 0
    ELSE LET i == CHOOSE j \in indices : TRUE
         IN  Unwrap(subtasks[i].metadata).bytes
                 + SumBytes(subtasks, indices \ {i})

\* CheckpointState::publish_operator_checkpoint; panic when an unwrap finds
\* None (a subtask without start time)
publish_operator_checkpoint(self, written, operator_id) ==
    LET subtasks == self.tasks[operator_id]
        indices == DOMAIN subtasks
    IN  IF \E i \in indices :
              \/ ~IsSome(subtasks[i].start_time)
              \/ ~IsSome(subtasks[i].finish_time)
              \/ ~IsSome(subtasks[i].metadata)
        THEN [self |-> self, written |-> written, panic |-> TRUE]
        ELSE
        LET finish_time ==
                Greatest({Unwrap(subtasks[i].finish_time) : i \in indices})
            metadata ==
                [operator_id |-> operator_id,
                 start_time |->
                     Least({Unwrap(subtasks[i].start_time) : i \in indices}),
                 finish_time |-> finish_time,
                 has_state |->
                     \E i \in indices : Unwrap(subtasks[i].metadata).has_state,
                 tables |->
                     UNION {{Unwrap(subtasks[i].metadata).tables[k] :
                               k \in 1..Len(Unwrap(subtasks[i].metadata).tables)} :
                            i \in indices},
                 bytes |-> SumBytes(subtasks, indices)]
        IN  [self |-> [self EXCEPT
                         !.operator_details =
                             IF operator_id \in DOMAIN self.operator_details
                             THEN [@ EXCEPT ![operator_id].finish_time =
                                                Some(finish_time)]
                             ELSE @,
                         !.completed_operators = @ \cup {operator_id}],
             written |-> Append(written, metadata),
             panic |-> FALSE]

\* the report asks for a commit: it has state and a CommitWrites table
WantsCommit(metadata) ==
    /\ metadata.has_state
    /\ \E k \in 1..Len(metadata.tables) :
          metadata.tables[k].write_behavior = "CommitWrites"

\* the operator_details of checkpoint_finished: the subtask's detail,
\* inserted when missing, with bytes and finish time of the report
finished_details(self, c) ==
    LET metadata == Unwrap(c.metadata)
        with_operator ==
            OrInsert(self.operator_details, c.operator_id,
                     [operator_id |-> c.operator_id,
                      start_time |-> metadata.start_time,
                      finish_time |-> None,
                      has_state |-> metadata.has_state,
                      tasks |-> <<>>])
        with_task ==
            OrInsert(with_operator[c.operator_id].tasks,
                     metadata.subtask_index,
                     [subtask_index |-> metadata.subtask_index,
                      start_time |-> metadata.start_time,
                      finish_time |-> None, bytes |-> None,
                      events |-> <<>>])
    IN  [with_operator EXCEPT ![c.operator_id].tasks =
            [with_task EXCEPT
               ![metadata.subtask_index].bytes = Some(metadata.bytes),
               ![metadata.subtask_index].finish_time =
                   Some(metadata.finish_time)]]

\* a checkpoint_finished that publishes as soon as the reporting subtask is
\* done
checkpoint_finished_publishing_early(self, written, c) ==
    LET metadata == Unwrap(c.metadata)
        idx == metadata.subtask_index
        detailed == [self EXCEPT !.operator_details = finished_details(self, c)]
        committing ==
            IF WantsCommit(metadata)
            THEN [detailed EXCEPT !.subtasks_to_commit =
                                      @ \cup {<<c.operator_id, idx>>}]
            ELSE detailed
    IN  IF c.operator_id \in self.completed_operators
        THEN [self |-> detailed, written |-> written, result |-> "Ok"]
        ELSE IF c.operator_id \notin DOMAIN self.tasks
        THEN [self |-> committing, written |-> written, result |-> "Err"]
        ELSE IF c.operator_id \notin DOMAIN self.tasks_per_operator
        THEN [self |-> committing, written |-> written, result |-> "Panic"]
        ELSE IF idx \notin DOMAIN self.tasks[c.operator_id]
        THEN [self |-> committing, written |-> written, result |-> "Err"]
        ELSE
        LET finished ==
                [committing EXCEPT !.tasks[c.operator_id][idx] =
                                       SubtaskState_finish(@, c)]
            subtasks == finished.tasks[c.operator_id]
        IN  IF SubtaskState_done(subtasks[idx])
            THEN LET published ==
                         publish_operator_checkpoint(finished, written,
                                                     c.operator_id)
                 IN  [self |-> published.self,
                      written |-> published.written,
                      result |-> IF published.panic THEN "Panic" ELSE "Ok"]
            ELSE [self |-> finished, written |-> written, result |-> "Ok"]

\* CheckpointState::checkpoint_finished; result is "Ok", "Err" or "Panic"
checkpoint_finished(self, written, c) ==
    LET metadata == Unwrap(c.metadata)
        idx == metadata.subtask_index
        detailed == [self EXCEPT !.operator_details = finished_details(self, c)]
        committing ==
            IF WantsCommit(metadata)
            THEN [detailed EXCEPT !.subtasks_to_commit =
                                      @ \cup {<<c.operator_id, idx>>}]
            ELSE detailed
    IN  IF c.operator_id \in self.completed_operators
        THEN [self |-> detailed, written |-> written, result |-> "Ok"]
        ELSE IF c.operator_id \notin DOMAIN self.tasks
        THEN [self |-> committing, written |-> written, result |-> "Err"]
        ELSE IF c.operator_id \notin DOMAIN self.tasks_per_operator
        THEN [self |-> committing, written |-> written, result |-> "Panic"]
        ELSE IF idx \notin DOMAIN self.tasks[c.operator_id]
        THEN [self |-> committing, written |-> written, result |-> "Err"]
        ELSE
        LET finished ==
                [committing EXCEPT !.tasks[c.operator_id][idx] =
                                       SubtaskState_finish(@, c)]
            subtasks == finished.tasks[c.operator_id]
        IN  IF /\ Cardinality(DOMAIN subtasks)
                      = self.tasks_per_operator[c.operator_id]
               /\ \A i \in DOMAIN subtasks : SubtaskState_done(subtasks[i])
            THEN LET published ==
                         publish_operator_checkpoint(finished, written,
                                                     c.operator_id)
                 IN  [self |-> published.self,
                      written |-> published.written,
                      result |-> IF published.panic THEN "Panic" ELSE "Ok"]
            ELSE [self |-> finished, written |-> written, result |-> "Ok"]

\* CheckpointState::done
done(self) ==
    Cardinality(self.completed_operators)
        = Cardinality(DOMAIN self.tasks_per_operator)

\* the CheckpointState the variables hold
CheckpointStateNow ==
    [tasks_per_operator |-> tasks_per_operator,
     tasks |-> tasks,
     completed_operators |-> completed_operators,
     subtasks_to_commit |-> subtasks_to_commit,
     operator_details |-> operator_details]

\* the subtasks the program runs: (operator id, subtask index)
SubtasksOfProgram ==
    UNION {{<<o, i>> : i \in 0..(ProgramTasksPerOperator[o] - 1)} :
           o \in DOMAIN ProgramTasksPerOperator}

RECURSIVE CountEvents(_, _)
\* the events the details hold for the given subtasks
CountEvents(details, pairs) ==
    IF pairs = {} THEN 0
    ELSE LET p == CHOOSE q \in pairs : TRUE
         IN  Len(details[p[1]].tasks[p[2]].events)
                 + CountEvents(details, pairs \ {p})
\* the events of the checkpoint the details hold, over all subtasks
EventsSeen ==
    CountEvents(operator_details,
                {p \in SubtasksOfProgram :
                    /\ p[1] \in DOMAIN operator_details
                    /\ p[2] \in DOMAIN operator_details[p[1]].tasks})

\* the requests the workers of the job send: events and completion reports
\* of the subtasks the program runs
EventTypes == {"StartedCheckpointing", "FinishedCommit"}
DefaultTables == <<[name |-> "s", write_behavior |-> "DefaultWrites"]>>
CommitTables == <<[name |-> "s", write_behavior |-> "DefaultWrites"],
                  [name |-> "c", write_behavior |-> "CommitWrites"]>>
ReportedStates == {[has_state |-> TRUE, tables |-> DefaultTables],
                   [has_state |-> TRUE, tables |-> CommitTables],
                   [has_state |-> FALSE, tables |-> CommitTables]}
TaskCheckpointEventReqs ==
    {[operator_id |-> p[1], subtask_index |-> p[2], time |-> EventTime,
      event_type |-> t] : p \in SubtasksOfProgram, t \in EventTypes}
TaskCheckpointCompletedReqs ==
    {[operator_id |-> p[1], time |-> ReportTime,
      metadata |-> Some([subtask_index |-> p[2], start_time |-> EventTime,
                         finish_time |-> ReportTime,
                         has_state |-> r.has_state, tables |-> r.tables,
                         bytes |-> 1])] :
        p \in SubtasksOfProgram, r \in ReportedStates}

\* the controller after CheckpointState::start, nothing else running
InitController ==
    /\ from_config
    /\ NoStorage
    /\ NoPolicy
    /\ tasks_per_operator = ProgramTasksPerOperator
    /\ tasks = CheckpointState_new(ProgramTasksPerOperator).tasks
    /\ completed_operators
           = CheckpointState_new(ProgramTasksPerOperator).completed_operators
    /\ subtasks_to_commit
           = CheckpointState_new(ProgramTasksPerOperator).subtasks_to_commit
    /\ operator_details
           = CheckpointState_new(ProgramTasksPerOperator).operator_details
    /\ operator_checkpoints = <<>>
    /\ last_call = None

\* the controller is up: no call has panicked
ControllerUp ==
    IF last_call = None THEN TRUE ELSE Unwrap(last_call).result # "Panic"

\* JobController handling a TaskCheckpointEventReq
CheckpointEvent ==
    \E c \in TaskCheckpointEventReqs :
        LET r == checkpoint_event(CheckpointStateNow, c)
        IN  /\ ControllerUp
            /\ EventsSeen < MaxEvents
            /\ tasks' = r.self.tasks
            /\ operator_details' = r.self.operator_details
            /\ completed_operators' = r.self.completed_operators
            /\ subtasks_to_commit' = r.self.subtasks_to_commit
            /\ tasks_per_operator' = r.self.tasks_per_operator
            /\ last_call' = Some([call |-> "checkpoint_event", request |-> c,
                                  result |-> r.result])
            /\ UNCHANGED operator_checkpoints
            /\ UNCHANGED <<actor_vars, channel_vars, store, facade_pc,
                           runtime_pc, stopping, source_vars, saved,
                           checkpoints, crashes, task_vars, storage_vars,
                           policy_vars, history_vars>>

\* JobController handling a TaskCheckpointCompletedReq
CheckpointFinished ==
    \E c \in TaskCheckpointCompletedReqs :
        LET r == checkpoint_finished(CheckpointStateNow,
                                     operator_checkpoints, c)
        IN  /\ ControllerUp
            /\ tasks' = r.self.tasks
            /\ operator_details' = r.self.operator_details
            /\ completed_operators' = r.self.completed_operators
            /\ subtasks_to_commit' = r.self.subtasks_to_commit
            /\ tasks_per_operator' = r.self.tasks_per_operator
            /\ operator_checkpoints' = r.written
            /\ last_call' = Some([call |-> "checkpoint_finished",
                                  request |-> c, result |-> r.result])
            /\ UNCHANGED <<actor_vars, channel_vars, store, facade_pc,
                           runtime_pc, stopping, source_vars, saved,
                           checkpoints, crashes, task_vars, storage_vars,
                           policy_vars, history_vars>>

\* the controller taking one checkpoint of the job
SpecController ==
    InitController /\ [][CheckpointEvent \/ CheckpointFinished]_vars

\* the subtask indices the program runs for an operator
SubtasksOf(operator_id) == 0..(tasks_per_operator[operator_id] - 1)

\* every subtask of the operator has had a completion report accepted:
\* SubtaskState::finish has recorded it
AllSubtasksReported(operator_id) ==
    /\ operator_id \in DOMAIN tasks
    /\ \A i \in SubtasksOf(operator_id) :
          /\ i \in DOMAIN tasks[operator_id]
          /\ IsSome(tasks[operator_id][i].finish_time)
          /\ IsSome(tasks[operator_id][i].metadata)

\* the operators whose checkpoint metadata has been written
Published ==
    {operator_checkpoints[k].operator_id : k \in 1..Len(operator_checkpoints)}

CompletedAfterAllReports ==
    /\ \A operator_id \in completed_operators :
          /\ operator_id \in DOMAIN tasks_per_operator
          /\ AllSubtasksReported(operator_id)
    /\ \A k \in 1..Len(operator_checkpoints) :
          AllSubtasksReported(operator_checkpoints[k].operator_id)
    /\ Published = completed_operators
    /\ done(CheckpointStateNow)
          => DOMAIN tasks_per_operator \subseteq completed_operators

CallMade == Unwrap(last_call')

\* the step is a completion report for an operator already completed
ReportForCompleted ==
    /\ CallMade.call = "checkpoint_finished"
    /\ CallMade.request.operator_id \in completed_operators

\* the step is the accepted completion report of the subtask, asking for a
\* commit
AcceptedCommitReport(subtask) ==
    /\ CallMade.call = "checkpoint_finished"
    /\ CallMade.result = "Ok"
    /\ CallMade.request.operator_id = subtask[1]
    /\ Unwrap(CallMade.request.metadata).subtask_index = subtask[2]
    /\ WantsCommit(Unwrap(CallMade.request.metadata))

ReportStep ==
    /\ ReportForCompleted
          => /\ CallMade.result = "Ok"
             /\ UNCHANGED <<completed_operators, tasks, subtasks_to_commit,
                            operator_checkpoints>>
    /\ \A subtask \in subtasks_to_commit' \ subtasks_to_commit :
          AcceptedCommitReport(subtask)

\* C39: a completion report for an operator already in completed_operators
\* returns Ok and leaves completed_operators, the subtask states and
\* subtasks_to_commit as they are, publishing nothing; and a subtask enters
\* subtasks_to_commit only by its accepted report with state and a
\* CommitWrites table
CommitOnlyForAcceptedReport == [][ReportStep]_vars

\* the step is a FinishedCommit checkpoint event
FinishedCommitEvent ==
    /\ CallMade.call = "checkpoint_event"
    /\ CallMade.request.event_type = "FinishedCommit"

\* the step is a completion report for an operator, or for a subtask, that
\* has no accepted checkpoint event
ReportWithoutStart ==
    /\ CallMade.call = "checkpoint_finished"
    /\ \/ CallMade.request.operator_id \notin DOMAIN tasks
       \/ Unwrap(CallMade.request.metadata).subtask_index
              \notin DOMAIN tasks[CallMade.request.operator_id]

RejectedStep ==
    /\ FinishedCommitEvent
          => /\ CallMade.result = "Err"
             /\ UNCHANGED <<operator_details, tasks>>
    /\ ReportWithoutStart
          => /\ CallMade.result = "Err"
             /\ UNCHANGED <<tasks, completed_operators, operator_checkpoints>>

\* C40: a FinishedCommit checkpoint event returns an error and leaves
\* operator_details and the subtask states as they are; a completion report
\* for an operator or subtask without checkpoint event returns an error,
\* finishes no subtask and completes no operator
RejectsWithoutEffect == [][RejectedStep]_vars

\* a FinishedCommit event has just been refused, after a report without start
\* was refused: nothing is in tasks, yet the report left its mark
RejectsWithoutEffectWitness ==
    /\ IsSome(last_call)
    /\ Unwrap(last_call).call = "checkpoint_event"
    /\ Unwrap(last_call).request.event_type = "FinishedCommit"
    /\ Unwrap(last_call).result = "Err"
    /\ tasks = <<>>
    /\ operator_details # <<>>
====
